---------------------------- MODULE Spec2Model ----------------------------
(***************************************************************************)
(* CAN bridge (ESP32 TWAI -> SLCAN over USB CDC).                          *)
(*                                                                         *)
(*   src/unnamed/part_002   can_autodetect.c : bit-rate prober             *)
(*   src/unnamed/part_001   can_bridge_main.c: start-up, ISR, two tasks    *)
(*   src/main/slcan_protocol.c               : SLCAN codec                 *)
(*                                                                         *)
(* Characters are one-character strings; CR, LF and BEL are tokens for     *)
(* '\r', '\n' and '\x07'.  A line is a sequence of characters.             *)
(***************************************************************************)
EXTENDS Integers, Sequences, FiniteSets, TLC

\* ------------------------------------------------------------------------
\* Program constants
\* ------------------------------------------------------------------------
CAN_BITRATE_125K == 125000
CAN_BITRATE_250K == 250000
CAN_BITRATE_500K == 500000
CAN_BITRATE_1M == 1000000
CAN_BITRATE_100K == 100000
CAN_BITRATE_50K == 50000

\* part_002:18-25, the prioritized candidate list
bitrate_list ==
  << CAN_BITRATE_125K, CAN_BITRATE_250K, CAN_BITRATE_500K,
     CAN_BITRATE_1M, CAN_BITRATE_100K, CAN_BITRATE_50K >>

\* part_002:27
BITRATE_COUNT == Len(bitrate_list)

\* part_001:31, timeout per candidate (ms)
AUTODETECT_TIMEOUT_MS == 2000
\* part_002:123, vTaskDelay(pdMS_TO_TICKS(50)) between two polls (ms)
POLL_MS == 50
\* part_001:180, xQueueCreate(50, ...)
RX_QUEUE_LEN == 50
\* part_001:95, char buffer[128]
LINE_BUFFER_SIZE == 128
\* slcan_protocol.c:179, largest 11-bit identifier
STD_ID_MAX == 2047
\* slcan_protocol.c:186, 29-bit identifier mask, as a modulus
EXT_ID_MOD == 536870912
\* slcan_protocol.c:198, classic CAN payload limit
MAX_DLC == 8

\* ------------------------------------------------------------------------
\* Bounds of the environment
\* ------------------------------------------------------------------------
\* frames the bus delivers during the relay phase of Spec
MaxRxFrames == 2
\* bytes the host sends during the relay phase of Spec
MaxHostBytes == 2
\* frames the bus delivers in StallSpec (more than RX_QUEUE_LEN)
StallFrames == 52
\* bytes the host sends in ReaderSpec
MaxCmdBytes == 6
\* bytes the host sends in ChannelSpec
MaxChannelBytes == 3
\* bytes the host sends in OverflowSpec after the line buffer is full
MaxOverflowBytes == 5

CR == "CR"
LF == "LF"
BEL == "BEL"

ESP_OK == "ESP_OK"
ESP_FAIL == "ESP_FAIL"
ESP_ERR_TIMEOUT == "ESP_ERR_TIMEOUT"
ESP_ERR_NO_MEM == "ESP_ERR_NO_MEM"
ESP_ERR_INVALID_STATE == "ESP_ERR_INVALID_STATE"

Min(a, b) == IF a < b THEN a ELSE b

VARIABLES
  pc,                \* position of the main task (app_main and its callees)
  i,                 \* can_autodetect_bitrate: loop index (1-based)
  try_ret,           \* value returned by the last try_bitrate
  ret,               \* init_can_bridge / app_main: ret
  elapsed,           \* try_bitrate: esp_timer_get_time() - start_time, in ms
  frame_received,    \* part_002:30
  detected_bitrate,  \* init_can_bridge: local written through the out pointer
  nodes,             \* controller adapter: the live controller sessions
  adapter_calls,     \* controller adapter: operations called so far
  tried,             \* history: bitrates try_bitrate was entered with
  first_avail,       \* history: first candidate index whose attempt had a frame
                     \* received inside its timeout window (0: none)
  heard,             \* history: the session of the attempt in progress (or
                     \* of the last attempt) has received a frame
  g_node_handle,     \* part_001:34
  g_rx_queue,        \* part_001:35 (the handle)
  queue_alive,       \* whether the queue object behind the handle exists
  rx_queue,          \* contents of the hand-off queue
  g_bridge_running,  \* part_001:36
  fwd_pc,            \* position of can_rx_task
  task_qf,           \* can_rx_task: local queued_frame
  usb_pc,            \* position of usb_rx_task
  buffer,            \* usb_rx_task: buffer[0 .. pos-1]
  pos,               \* usb_rx_task: pos
  slcan_state,       \* slcan_protocol.c:16-24
  host_out,          \* everything written to stdout, one item per printf
  isr_buf,           \* memory of the ISR's local data_buffer (its stack slot)
  rx_count,          \* environment: frames delivered by the bus in relay mode
  host_count,        \* environment: bytes sent by the host
  host_in,           \* history: the bytes fgetc returned to usb_rx_task
  cmd_log,           \* history: one record per slcan_process_command call
  captured,          \* history: entries the ISR received successfully
  enq_hist,          \* history: entries accepted by the queue
  deq_hist,          \* history: entries taken out by can_rx_task
  sent_log,          \* history: one record per frame line written
  discarded          \* history: dequeued frames dropped by slcan_send_frame

vars ==
  << pc, i, try_ret, ret, elapsed, frame_received, detected_bitrate, nodes,
     adapter_calls, tried, first_avail, heard, g_node_handle, g_rx_queue,
     queue_alive, rx_queue, g_bridge_running, fwd_pc, task_qf,
     usb_pc, buffer, pos, slcan_state, host_out, isr_buf, rx_count,
     host_count,
     host_in, cmd_log, captured, enq_hist, deq_hist, sent_log, discarded >>

bridgeVars == << g_node_handle, g_rx_queue, queue_alive, g_bridge_running >>


\* ------------------------------------------------------------------------
\* Controller adapter (esp_twai driver), as the program uses it.  A session
\* is a record; its handle is the pair (owner, bitrate).
\* ------------------------------------------------------------------------
NoHandle == [owner |-> "none", bitrate |-> 0]

HandleOf(n) == [owner |-> n.owner, bitrate |-> n.bitrate]

\* part_002:66-80, the node configuration try_bitrate builds
ProbeConfigNormalMode(bitrate) ==
  [owner |-> "probe", bitrate |-> bitrate, tx_queue_depth |-> 1,
   listen_only |-> FALSE]

ProbeConfig(bitrate) ==
  [owner |-> "probe", bitrate |-> bitrate, tx_queue_depth |-> 1,
   listen_only |-> TRUE]

\* part_002:163-174, the node configuration can_bridge_init builds
BridgeConfig(bitrate) ==
  [owner |-> "relay", bitrate |-> bitrate, tx_queue_depth |-> 10,
   listen_only |-> FALSE]

\* twai_new_node_onchip succeeding: a new, disabled session
twai_new_node_onchip(cfg) ==
  nodes \cup { [owner |-> cfg.owner, bitrate |-> cfg.bitrate,
                tx_queue_depth |-> cfg.tx_queue_depth,
                listen_only |-> cfg.listen_only,
                enabled |-> FALSE, cb |-> "none"] }

\* twai_node_register_event_callbacks succeeding
twai_node_register_event_callbacks(ns, h, cb) ==
  { IF HandleOf(n) = h THEN [n EXCEPT !.cb = cb] ELSE n : n \in ns }

twai_node_enable(ns, h) ==
  { IF HandleOf(n) = h THEN [n EXCEPT !.enabled = TRUE] ELSE n : n \in ns }

twai_node_disable(ns, h) ==
  { IF HandleOf(n) = h THEN [n EXCEPT !.enabled = FALSE] ELSE n : n \in ns }

twai_node_delete(ns, h) == { n \in ns : HandleOf(n) # h }

\* can_bridge_deinit, part_002:186-200
can_bridge_deinit(ns, h) == twai_node_delete(twai_node_disable(ns, h), h)

Called(ops) == adapter_calls' = adapter_calls \cup ops

\* the handle try_bitrate holds for candidate i
ProbeHandle == [owner |-> "probe", bitrate |-> bitrate_list[i]]

relayVars ==
  << fwd_pc, task_qf, usb_pc, buffer, pos, slcan_state, host_out,
     isr_buf, rx_count, host_count,
     host_in, cmd_log, captured, enq_hist, deq_hist, sent_log,
     discarded, rx_queue >>

\* ------------------------------------------------------------------------
\* Initial state: the program image before app_main runs
\* ------------------------------------------------------------------------
NoFrame ==
  [hdr |-> [id |-> 0, ide |-> FALSE, rtr |-> FALSE, dlc |-> 0],
   buffer |-> "null", data_buffer |-> << >>]

Init ==
  /\ pc = "app_main"
  /\ i = 1
  /\ try_ret = ESP_OK
  /\ ret = ESP_OK
  /\ elapsed = 0
  /\ frame_received = FALSE
  /\ detected_bitrate = 0
  /\ nodes = {}
  /\ adapter_calls = {}
  /\ tried = << >>
  /\ first_avail = 0
  /\ heard = FALSE
  /\ g_node_handle = NoHandle
  /\ g_rx_queue = "NULL"
  /\ queue_alive = FALSE
  /\ rx_queue = << >>
  /\ g_bridge_running = FALSE
  /\ fwd_pc = "not_created"
  /\ task_qf = NoFrame
  /\ usb_pc = "not_created"
  /\ buffer = << >>
  /\ pos = 0
  /\ slcan_state = [is_open |-> FALSE, bitrate |-> 0, timestamp_enabled |-> 0]
  /\ host_out = << >>
  /\ isr_buf = << >>
  /\ rx_count = 0
  /\ host_count = 0
  /\ host_in = << >>
  /\ cmd_log = << >>
  /\ captured = << >>
  /\ enq_hist = << >>
  /\ deq_hist = << >>
  /\ sent_log = << >>
  /\ discarded = 0

\* ------------------------------------------------------------------------
\* app_main / slcan_init
\* ------------------------------------------------------------------------
\* slcan_protocol.c:81-89
slcan_init == [is_open |-> FALSE, bitrate |-> 0, timestamp_enabled |-> 0]

\* part_001:224-228 and 138-155: slcan_init(), then init_can_bridge() calls
\* can_autodetect_bitrate with detected_bitrate = 0
AppMainStart ==
  /\ pc = "app_main"
  /\ slcan_state' = slcan_init
  /\ detected_bitrate' = 0
  /\ i' = 1
  /\ pc' = "autodetect_loop"
  /\ UNCHANGED << try_ret, ret, elapsed, frame_received, nodes, adapter_calls,
                  tried, first_avail, heard, bridgeVars, fwd_pc, task_qf,
                  usb_pc, buffer, pos, host_out, isr_buf, rx_count,
                  host_count,
                  host_in, cmd_log, captured, enq_hist, deq_hist, sent_log,
                  discarded, rx_queue >>

\* ------------------------------------------------------------------------
\* can_autodetect_bitrate, part_002:135-156
\* ------------------------------------------------------------------------
\* the loop test of the restarting variant: begins again at the first rate
AutodetectLoopRestart ==
  /\ pc = "autodetect_loop"
  /\ IF i <= BITRATE_COUNT
       THEN /\ pc' = "try_new"
            /\ UNCHANGED << i, ret >>
       ELSE IF Len(tried) < 2 * BITRATE_COUNT
       THEN /\ i' = 1
            /\ pc' = "try_new"
            /\ UNCHANGED ret
       ELSE /\ ret' = ESP_ERR_TIMEOUT
            /\ pc' = "autodetect_ret"
            /\ UNCHANGED i
  /\ UNCHANGED << try_ret, elapsed, frame_received, detected_bitrate, nodes,
                  adapter_calls, tried, first_avail,
                  heard, bridgeVars, relayVars >>

\* part_002:140 and 154-155: the loop test; after the last candidate the
\* function returns ESP_ERR_TIMEOUT
AutodetectLoop ==
  /\ pc = "autodetect_loop"
  /\ IF i <= BITRATE_COUNT
       THEN /\ pc' = "try_new"
            /\ UNCHANGED ret
       ELSE /\ ret' = ESP_ERR_TIMEOUT
            /\ pc' = "autodetect_ret"
  /\ UNCHANGED << i, try_ret, elapsed, frame_received, detected_bitrate, nodes,
                  adapter_calls, tried, first_avail,
                  heard, bridgeVars, relayVars >>

\* a variant that gives up when try_bitrate reports an adapter failure
AutodetectCheckStopsOnError ==
  /\ pc = "try_ret"
  /\ IF try_ret = ESP_OK
       THEN /\ detected_bitrate' = bitrate_list[i]
            /\ ret' = ESP_OK
            /\ pc' = "autodetect_ret"
       ELSE IF try_ret = ESP_FAIL
       THEN /\ ret' = ESP_FAIL
            /\ pc' = "autodetect_ret"
            /\ UNCHANGED detected_bitrate
       ELSE /\ pc' = "settle"
            /\ UNCHANGED << detected_bitrate, ret >>
  /\ UNCHANGED << i, try_ret, elapsed, frame_received, nodes, adapter_calls,
                  tried, first_avail, heard, bridgeVars, relayVars >>

\* part_002:144-151: the result of try_bitrate
AutodetectCheck ==
  /\ pc = "try_ret"
  /\ IF try_ret = ESP_OK
       THEN /\ detected_bitrate' = bitrate_list[i]
            /\ ret' = ESP_OK
            /\ pc' = "autodetect_ret"
       ELSE /\ pc' = "settle"
            /\ UNCHANGED << detected_bitrate, ret >>
  /\ UNCHANGED << i, try_ret, elapsed, frame_received, nodes, adapter_calls,
                  tried, first_avail, heard, bridgeVars, relayVars >>

\* part_002:150-151 and the i++ of line 140
AutodetectSettle ==
  /\ pc = "settle"
  /\ i' = i + 1
  /\ pc' = "autodetect_loop"
  /\ UNCHANGED << try_ret, ret, elapsed, frame_received, detected_bitrate,
                  nodes, adapter_calls, tried, first_avail, heard, bridgeVars,
                  relayVars >>

\* ------------------------------------------------------------------------
\* try_bitrate, part_002:61-133
\* ------------------------------------------------------------------------
\* part_002:63-87: build the configuration, create the node
TryNew ==
  /\ pc = "try_new"
  /\ tried' = Append(tried, bitrate_list[i])
  /\ Called({"twai_new_node_onchip"})
  /\ \E ok \in BOOLEAN :
       IF ok
         THEN /\ nodes' = twai_new_node_onchip(ProbeConfig(bitrate_list[i]))
              /\ pc' = "try_register"
              /\ UNCHANGED try_ret
         ELSE /\ try_ret' = ESP_FAIL
              /\ pc' = "try_ret"
              /\ UNCHANGED nodes
  /\ heard' = FALSE
  /\ UNCHANGED << i, ret, elapsed, frame_received, detected_bitrate,
                  first_avail, bridgeVars, relayVars >>

\* the registration step of a variant that does not clear frame_received
TryRegisterKeepsFlag ==
  /\ pc = "try_register"
  /\ \E ok \in BOOLEAN :
       IF ok
         THEN /\ nodes' = twai_node_register_event_callbacks(
                            nodes, ProbeHandle, "detection_rx_callback")
              /\ Called({"twai_node_register_event_callbacks"})
              /\ pc' = "try_enable"
              /\ UNCHANGED try_ret
         ELSE /\ nodes' = twai_node_delete(nodes, ProbeHandle)
              /\ Called({"twai_node_register_event_callbacks",
                         "twai_node_delete"})
              /\ try_ret' = ESP_FAIL
              /\ pc' = "try_ret"
  /\ UNCHANGED << i, ret, elapsed, frame_received, detected_bitrate, tried,
                  first_avail, heard, bridgeVars, relayVars >>

\* part_002:89-99: clear the flag, register detection_rx_callback
TryRegister ==
  /\ pc = "try_register"
  /\ frame_received' = FALSE
  /\ \E ok \in BOOLEAN :
       IF ok
         THEN /\ nodes' = twai_node_register_event_callbacks(
                            nodes, ProbeHandle, "detection_rx_callback")
              /\ Called({"twai_node_register_event_callbacks"})
              /\ pc' = "try_enable"
              /\ UNCHANGED try_ret
         ELSE /\ nodes' = twai_node_delete(nodes, ProbeHandle)
              /\ Called({"twai_node_register_event_callbacks",
                         "twai_node_delete"})
              /\ try_ret' = ESP_FAIL
              /\ pc' = "try_ret"
  /\ UNCHANGED << i, ret, elapsed, detected_bitrate, tried, first_avail, heard,
                  bridgeVars, relayVars >>

\* the enable step of a variant that forgets the session when enabling fails
TryEnableLeak ==
  /\ pc = "try_enable"
  /\ \E ok \in BOOLEAN :
       IF ok
         THEN /\ nodes' = twai_node_enable(nodes, ProbeHandle)
              /\ Called({"twai_node_enable"})
              /\ elapsed' = 0
              /\ pc' = "try_poll"
              /\ UNCHANGED try_ret
         ELSE /\ Called({"twai_node_enable"})
              /\ try_ret' = ESP_FAIL
              /\ pc' = "try_ret"
              /\ UNCHANGED << elapsed, nodes >>
  /\ UNCHANGED << i, ret, frame_received, detected_bitrate, tried,
                  first_avail, heard, bridgeVars, relayVars >>

\* part_002:101-112: enable the node and take start_time
TryEnable ==
  /\ pc = "try_enable"
  /\ \E ok \in BOOLEAN :
       IF ok
         THEN /\ nodes' = twai_node_enable(nodes, ProbeHandle)
              /\ Called({"twai_node_enable"})
              /\ elapsed' = 0
              /\ pc' = "try_poll"
              /\ UNCHANGED try_ret
         ELSE /\ nodes' = twai_node_delete(nodes, ProbeHandle)
              /\ Called({"twai_node_enable", "twai_node_delete"})
              /\ try_ret' = ESP_FAIL
              /\ pc' = "try_ret"
              /\ UNCHANGED elapsed
  /\ UNCHANGED << i, ret, frame_received, detected_bitrate, tried,
                  first_avail, heard, bridgeVars, relayVars >>

\* part_002:114-132: one evaluation of the loop condition and of the flag
\* (elapsed is a local: it is reset when try_bitrate returns)
TryPoll ==
  /\ pc = "try_poll"
  /\ IF elapsed < AUTODETECT_TIMEOUT_MS
       THEN IF frame_received
              THEN /\ nodes' = twai_node_delete(
                                 twai_node_disable(nodes, ProbeHandle),
                                 ProbeHandle)
                   /\ Called({"twai_node_disable", "twai_node_delete"})
                   /\ try_ret' = ESP_OK
                   /\ elapsed' = 0
                   /\ pc' = "try_ret"
              ELSE /\ pc' = "try_delay"
                   /\ UNCHANGED << nodes, adapter_calls, try_ret, elapsed >>
       ELSE /\ nodes' = twai_node_delete(
                          twai_node_disable(nodes, ProbeHandle), ProbeHandle)
            /\ Called({"twai_node_disable", "twai_node_delete"})
            /\ try_ret' = ESP_ERR_TIMEOUT
            /\ elapsed' = 0
            /\ pc' = "try_ret"
  /\ UNCHANGED << i, ret, frame_received, detected_bitrate, tried,
                  first_avail, heard, bridgeVars, relayVars >>

\* part_002:122-123: checks++, vTaskDelay(pdMS_TO_TICKS(50))
TryDelay ==
  /\ pc = "try_delay"
  /\ elapsed' = elapsed + POLL_MS
  /\ pc' = "try_poll"
  /\ UNCHANGED << i, try_ret, ret, frame_received, detected_bitrate, nodes,
                  adapter_calls, tried, first_avail,
                  heard, bridgeVars, relayVars >>

\* part_002:35-56, detection_rx_callback: runs in interrupt context whenever
\* an enabled session with this callback has received a frame
DetectionRx ==
  /\ \E n \in nodes : n.enabled /\ n.cb = "detection_rx_callback"
  /\ Called({"twai_node_receive_from_isr"})
  /\ \E ok \in BOOLEAN :
       IF ok
         THEN /\ frame_received' = TRUE
              /\ heard' = TRUE
              /\ first_avail' =
                   IF first_avail = 0 /\ elapsed < AUTODETECT_TIMEOUT_MS
                     THEN i ELSE first_avail
         ELSE UNCHANGED << frame_received, first_avail, heard >>
  /\ UNCHANGED << pc, i, try_ret, ret, elapsed, detected_bitrate, nodes,
                  tried, bridgeVars, relayVars >>


\* ------------------------------------------------------------------------
\* init_can_bridge after detection, part_001:157-217
\* ------------------------------------------------------------------------
probeState ==
  << i, try_ret, elapsed, frame_received, detected_bitrate, tried,
     first_avail, heard >>

\* init_can_bridge that stores the detected rate as the channel's bitrate
InitAfterDetectStoresBitrate ==
  /\ pc = "autodetect_ret"
  /\ pc' = IF ret # ESP_OK THEN "app_check" ELSE "bridge_init"
  /\ i' = 1
  /\ try_ret' = ESP_OK
  /\ slcan_state' = [slcan_state EXCEPT !.bitrate = detected_bitrate]
  /\ UNCHANGED << ret, elapsed, frame_received, detected_bitrate, tried,
                  first_avail, heard, nodes, adapter_calls, bridgeVars, fwd_pc,
                  task_qf, usb_pc, buffer, pos, host_out, isr_buf, rx_count,
                  host_count, host_in, cmd_log, captured, enq_hist, deq_hist,
                  sent_log, discarded, rx_queue >>

\* part_001:157-165: a failed detection is returned to app_main (the locals
\* of can_autodetect_bitrate are out of scope: i and try_ret are reset)
InitAfterDetect ==
  /\ pc = "autodetect_ret"
  /\ pc' = IF ret # ESP_OK THEN "app_check" ELSE "bridge_init"
  /\ i' = 1
  /\ try_ret' = ESP_OK
  /\ UNCHANGED << ret, elapsed, frame_received, detected_bitrate, tried,
                  first_avail,
                  heard, nodes, adapter_calls, bridgeVars, relayVars >>

\* a can_bridge_init that enables the session it has created
InitBridgeNodeEnablesAtOnce ==
  /\ pc = "bridge_init"
  /\ Called({"twai_new_node_onchip"})
  /\ \E ok \in BOOLEAN :
       IF ok
         THEN /\ nodes' = twai_node_enable(
                            twai_new_node_onchip(BridgeConfig(detected_bitrate)),
                            [owner |-> "relay", bitrate |-> detected_bitrate])
              /\ g_node_handle' =
                   [owner |-> "relay", bitrate |-> detected_bitrate]
              /\ ret' = ESP_OK
              /\ pc' = "queue_create"
         ELSE /\ ret' = ESP_FAIL
              /\ pc' = "app_check"
              /\ UNCHANGED << nodes, g_node_handle >>
  /\ UNCHANGED << probeState, g_rx_queue, queue_alive, g_bridge_running,
                  relayVars >>

\* part_001:172-177 and can_bridge_init, part_002:158-184
InitBridgeNode ==
  /\ pc = "bridge_init"
  /\ Called({"twai_new_node_onchip"})
  /\ \E ok \in BOOLEAN :
       IF ok
         THEN /\ nodes' = twai_new_node_onchip(BridgeConfig(detected_bitrate))
              /\ g_node_handle' =
                   [owner |-> "relay", bitrate |-> detected_bitrate]
              /\ ret' = ESP_OK
              /\ pc' = "queue_create"
         ELSE /\ ret' = ESP_FAIL
              /\ pc' = "app_check"
              /\ UNCHANGED << nodes, g_node_handle >>
  /\ UNCHANGED << probeState, g_rx_queue, queue_alive, g_bridge_running,
                  relayVars >>

\* part_001:179-185: xQueueCreate(50, sizeof(queued_frame_t))
InitQueue ==
  /\ pc = "queue_create"
  /\ \E ok \in BOOLEAN :
       IF ok
         THEN /\ g_rx_queue' = "rx_queue"
              /\ queue_alive' = TRUE
              /\ rx_queue' = << >>
              /\ pc' = "cb_register"
              /\ UNCHANGED << ret, nodes, adapter_calls >>
         ELSE /\ g_rx_queue' = "NULL"
              /\ nodes' = can_bridge_deinit(nodes, g_node_handle)
              /\ Called({"twai_node_disable", "twai_node_delete"})
              /\ ret' = ESP_ERR_NO_MEM
              /\ pc' = "app_check"
              /\ UNCHANGED << queue_alive, rx_queue >>
  /\ UNCHANGED << probeState, g_node_handle, g_bridge_running, fwd_pc,
                  task_qf, usb_pc, buffer, pos, slcan_state, host_out,
                  isr_buf, rx_count, host_count,
                  host_in, cmd_log, captured, enq_hist,
                  deq_hist, sent_log, discarded >>

\* part_001:187-197: register can_rx_callback with the queue as user_ctx
InitRegister ==
  /\ pc = "cb_register"
  /\ \E ok \in BOOLEAN :
       IF ok
         THEN /\ nodes' = twai_node_register_event_callbacks(
                            nodes, g_node_handle, "can_rx_callback")
              /\ Called({"twai_node_register_event_callbacks"})
              /\ pc' = "node_enable"
              /\ UNCHANGED << ret, queue_alive >>
         ELSE /\ queue_alive' = FALSE
              /\ nodes' = can_bridge_deinit(nodes, g_node_handle)
              /\ Called({"twai_node_register_event_callbacks",
                         "twai_node_disable", "twai_node_delete"})
              /\ ret' = ESP_FAIL
              /\ pc' = "app_check"
  /\ UNCHANGED << probeState, g_node_handle, g_rx_queue, g_bridge_running,
                  relayVars >>

\* the enable step of a variant that keeps the queue when enabling fails
InitEnableKeepsQueue ==
  /\ pc = "node_enable"
  /\ \E ok \in BOOLEAN :
       IF ok
         THEN /\ nodes' = twai_node_enable(nodes, g_node_handle)
              /\ Called({"twai_node_enable"})
              /\ ret' = ESP_OK
         ELSE /\ nodes' = can_bridge_deinit(nodes, g_node_handle)
              /\ Called({"twai_node_enable", "twai_node_disable",
                         "twai_node_delete"})
              /\ ret' = ESP_FAIL
  /\ pc' = "app_check"
  /\ UNCHANGED << probeState, g_node_handle, g_rx_queue, queue_alive,
                  g_bridge_running, relayVars >>

\* part_001:199-216: enable the relay session
InitEnable ==
  /\ pc = "node_enable"
  /\ \E ok \in BOOLEAN :
       IF ok
         THEN /\ nodes' = twai_node_enable(nodes, g_node_handle)
              /\ Called({"twai_node_enable"})
              /\ ret' = ESP_OK
              /\ UNCHANGED queue_alive
         ELSE /\ queue_alive' = FALSE
              /\ nodes' = can_bridge_deinit(nodes, g_node_handle)
              /\ Called({"twai_node_enable", "twai_node_disable",
                         "twai_node_delete"})
              /\ ret' = ESP_FAIL
  /\ pc' = "app_check"
  /\ UNCHANGED << probeState, g_node_handle, g_rx_queue, g_bridge_running,
                  relayVars >>

\* ------------------------------------------------------------------------
\* app_main after init_can_bridge, part_001:228-245
\* ------------------------------------------------------------------------
\* a variant of app_main that starts the bridge whatever init returned
AppMainCheckIgnoresError ==
  /\ pc = "app_check"
  /\ g_bridge_running' = TRUE
  /\ pc' = "create_can_rx"
  /\ UNCHANGED << ret, probeState, nodes, adapter_calls, g_node_handle,
                  g_rx_queue, queue_alive, relayVars >>

\* part_001:229-235: return on failure, else set the run flag
AppMainCheck ==
  /\ pc = "app_check"
  /\ IF ret # ESP_OK
       THEN /\ pc' = "halted"
            /\ UNCHANGED g_bridge_running
       ELSE /\ g_bridge_running' = TRUE
            /\ pc' = "create_can_rx"
  /\ UNCHANGED << ret, probeState, nodes, adapter_calls, g_node_handle,
                  g_rx_queue, queue_alive, relayVars >>

\* part_001:238: xTaskCreate(can_rx_task, ...)
AppMainCreateCanRx ==
  /\ pc = "create_can_rx"
  /\ fwd_pc' = "loop"
  /\ pc' = "create_usb_rx"
  /\ UNCHANGED << ret, probeState, nodes, adapter_calls, bridgeVars,
                  task_qf, usb_pc, buffer, pos, slcan_state, host_out,
                  isr_buf, rx_count, host_count,
                  host_in, cmd_log, captured, enq_hist,
                  deq_hist, sent_log, discarded, rx_queue >>

\* part_001:239 and 93-98: xTaskCreate(usb_rx_task, ...); pos = 0
AppMainCreateUsbRx ==
  /\ pc = "create_usb_rx"
  /\ usb_pc' = "loop"
  /\ buffer' = << >>
  /\ pos' = 0
  /\ pc' = "main_loop"
  /\ UNCHANGED << ret, probeState, nodes, adapter_calls, bridgeVars, fwd_pc,
                  task_qf, slcan_state, host_out, isr_buf, rx_count,
                  host_count,
                  host_in, cmd_log, captured, enq_hist, deq_hist, sent_log,
                  discarded, rx_queue >>


\* ------------------------------------------------------------------------
\* SLCAN codec, slcan_protocol.c
\* ------------------------------------------------------------------------
HexChars ==
  << "0", "1", "2", "3", "4", "5", "6", "7",
     "8", "9", "A", "B", "C", "D", "E", "F" >>

\* printf("%0<width>lX", v) for v < 16^width
FormatHex(v, width) ==
  [k \in 1 .. width |-> HexChars[((v \div (16 ^ (width - k))) % 16) + 1]]

\* slcan_protocol.c:52-57
byte_to_hex(byte) ==
  << HexChars[((byte \div 16) % 16) + 1], HexChars[(byte % 16) + 1] >>

\* slcan_protocol.c:62-68
hex_to_nibble(c) ==
  IF \E k \in 1 .. 16 : HexChars[k] = c
    THEN (CHOOSE k \in 1 .. 16 : HexChars[k] = c) - 1
  ELSE IF c \in { "a", "b", "c", "d", "e", "f" }
    THEN CASE c = "a" -> 10 [] c = "b" -> 11 [] c = "c" -> 12
           [] c = "d" -> 13 [] c = "e" -> 14 [] c = "f" -> 15
  ELSE -1

\* slcan_protocol.c:73-79
hex_to_byte(hex) ==
  LET high == hex_to_nibble(hex[1])
      low == hex_to_nibble(hex[2])
  IN  IF high < 0 \/ low < 0 THEN -1 ELSE high * 16 + low

\* memory read through a frame's buffer pointer: byte k (1-based) of mem;
\* the bytes a receive did not write are the zeroes of "= {0}"
ReadByte(mem, k) == IF k <= Len(mem) THEN mem[k] ELSE 0

\* what a frame's buffer pointer refers to
Deref(ptr) == IF ptr = "isr_stack" THEN isr_buf ELSE << >>

\* slcan_protocol.c:202-207, the data bytes of the first n positions
RECURSIVE DataHex(_, _)
DataHex(mem, n) ==
  IF n = 0 THEN << >>
  ELSE DataHex(mem, n - 1) \o byte_to_hex(ReadByte(mem, n))

\* the DLC without the limit to 8
ClampDlcUnlimited(dlc) == dlc % 256

\* slcan_protocol.c:196-198
ClampDlc(dlc) == Min(dlc % 256, MAX_DLC)

\* slcan_protocol.c:175-218: the line slcan_send_frame formats for a frame
\* header, the memory its buffer points to and the timestamp flag
FrameLine(hdr, mem, ts) ==
  LET is_extended == hdr.id > STD_ID_MAX
      is_rtr == hdr.rtr
      dlc == ClampDlc(hdr.dlc)
      ident == IF is_extended
                 THEN << (IF is_rtr THEN "R" ELSE "T") >>
                        \o FormatHex(hdr.id % EXT_ID_MOD, 8)
                 ELSE << (IF is_rtr THEN "r" ELSE "t") >>
                        \o FormatHex(hdr.id % (STD_ID_MAX + 1), 3)
      data == IF is_rtr THEN << >> ELSE DataHex(mem, dlc)
      stamp == IF ts # 0 THEN FormatHex(0, 4) ELSE << >>
  IN  ident \o << HexChars[dlc + 1] >> \o data \o stamp \o << CR >>

\* slcan_protocol.c:26-37
slcan_bitrates ==
  << 10000, 20000, 50000, 100000, 125000, 250000, 500000, 800000, 1000000 >>

\* data[1] - '0' when it lands in the table, else -1
RateCode(c) ==
  IF \E k \in 1 .. Len(slcan_bitrates) : HexChars[k] = c
    THEN (CHOOSE k \in 1 .. Len(slcan_bitrates) : HexChars[k] = c) - 1
    ELSE -1

\* slcan_protocol.c:98-109, case 'S' without the code table
CmdSetBitrateAnyCode(st, data, len) ==
  IF len >= 2
    THEN [state |-> [st EXCEPT !.bitrate =
                       slcan_bitrates[(hex_to_nibble(data[2]) % 9) + 1]],
          out |-> << << CR >> >>]
    ELSE [state |-> st, out |-> << >>]

\* slcan_protocol.c:98-109, case 'S'
CmdSetBitrate(st, data, len) ==
  IF len >= 2
    THEN IF RateCode(data[2]) >= 0
           THEN [state |-> [st EXCEPT !.bitrate =
                              slcan_bitrates[RateCode(data[2]) + 1]],
                 out |-> << << CR >> >>]
           ELSE [state |-> st, out |-> << << BEL >> >>]
    ELSE [state |-> st, out |-> << >>]

\* case 'Z' that switches timestamps on whatever the argument
CmdTimestampAlwaysOn(st, data, len) ==
  IF len >= 2
    THEN [state |-> [st EXCEPT !.timestamp_enabled = 1],
          out |-> << << CR >> >>]
    ELSE [state |-> st, out |-> << >>]

\* slcan_protocol.c:140-145, case 'Z'
CmdTimestamp(st, data, len) ==
  IF len >= 2
    THEN [state |-> [st EXCEPT !.timestamp_enabled =
                       IF data[2] = "1" THEN 1 ELSE 0],
          out |-> << << CR >> >>]
    ELSE [state |-> st, out |-> << >>]

\* cases 't', 'T', 'r', 'R' that refuse the command on a closed channel
CmdTransmitWhenOpen(st) ==
  IF st.is_open
    THEN [state |-> st, out |-> << << "z", CR >> >>]
    ELSE [state |-> st, out |-> << << BEL >> >>]

\* slcan_protocol.c:151-158, cases 't', 'T', 'r', 'R'
CmdTransmit(st) == [state |-> st, out |-> << << "z", CR >> >>]

\* a default case that closes the channel on an unknown command
CmdUnknownCloses(st) ==
  [state |-> [st EXCEPT !.is_open = FALSE], out |-> << << BEL >> >>]

\* slcan_protocol.c:160-163, default
CmdUnknown(st) == [state |-> st, out |-> << << BEL >> >>]

\* slcan_protocol.c:91-167: the new channel state and what is written
slcan_process_command(st, data, len) ==
  IF len = 0 THEN [state |-> st, out |-> << >>]
  ELSE
  LET cmd == data[1] IN
  CASE cmd = "S" -> CmdSetBitrate(st, data, len)
    [] cmd = "s" -> [state |-> st, out |-> << << BEL >> >>]
    [] cmd = "O" -> [state |-> [st EXCEPT !.is_open = TRUE],
                     out |-> << << CR >> >>]
    [] cmd = "C" -> [state |-> [st EXCEPT !.is_open = FALSE],
                     out |-> << << CR >> >>]
    [] cmd = "V" ->
         [state |-> st, out |-> << << "V", "1", "2", "3", "4", CR >> >>]
    [] cmd = "v" ->
         [state |-> st, out |-> << << "v", "1", "2", "3", "4", CR >> >>]
    [] cmd = "N" ->
         [state |-> st, out |-> << << "N", "E", "S", "P", "3", "2", CR >> >>]
    [] cmd = "Z" -> CmdTimestamp(st, data, len)
    [] cmd = "F" -> [state |-> st, out |-> << << "F", "0", "0", CR >> >>]
    [] cmd \in { "t", "T", "r", "R" } -> CmdTransmit(st)
    [] OTHER -> CmdUnknown(st)

\* ------------------------------------------------------------------------
\* Relay: interrupt, hand-off queue, forwarder task, command reader task
\* ------------------------------------------------------------------------
\* a queue that overwrites its oldest entry when full
xQueueSendFromISR_Overwrite(q, e) ==
  IF Len(q) < RX_QUEUE_LEN THEN Append(q, e) ELSE Append(Tail(q), e)

\* part_001:63 on the queue of part_001:180: non-blocking send, the new
\* item is refused when the queue holds RX_QUEUE_LEN items
xQueueSendFromISR(q, e) ==
  IF Len(q) < RX_QUEUE_LEN THEN Append(q, e) ELSE q

\* a receive that hands out the newest entry
xQueueReceive_Newest(q) ==
  [item |-> q[Len(q)], rest |-> SubSeq(q, 1, Len(q) - 1)]

\* part_001:80 on a non-empty queue: the oldest entry is copied out
xQueueReceive(q) == [item |-> Head(q), rest |-> Tail(q)]

\* part_001:47-67, can_rx_callback, for the frame f the controller holds;
\* ok says whether twai_node_receive_from_isr returned ESP_OK.  The local
\* queued_frame is zeroed, its buffer pointer set to its own data_buffer,
\* and the struct is copied into the queue, pointer included.
can_rx_callback(f, ok) ==
  /\ \E n \in nodes : n.enabled /\ n.cb = "can_rx_callback"
  /\ queue_alive
  /\ Called({"twai_node_receive_from_isr"})
  /\ rx_count' = rx_count + 1
  /\ isr_buf' = IF ok THEN f.data ELSE << >>
  /\ IF ok
       THEN LET e == [hdr |-> f.hdr, buffer |-> "isr_stack",
                      data_buffer |-> f.data]
            IN  /\ captured' = Append(captured, e)
                /\ rx_queue' = xQueueSendFromISR(rx_queue, e)
                /\ enq_hist' = IF rx_queue' # rx_queue
                                 THEN Append(enq_hist, e) ELSE enq_hist
       ELSE UNCHANGED << captured, rx_queue, enq_hist >>
  /\ UNCHANGED << pc, ret, probeState, nodes, bridgeVars, fwd_pc, task_qf,
                  usb_pc, buffer, pos, slcan_state, host_out, host_count,
                  host_in, cmd_log,
                  deq_hist, sent_log, discarded >>

\* a forwarder that loops without looking at the run flag
FwdLoopIgnoresFlag ==
  /\ fwd_pc = "loop"
  /\ fwd_pc' = "recv"
  /\ UNCHANGED << pc, ret, probeState, nodes, adapter_calls, bridgeVars,
                  task_qf, usb_pc, buffer, pos, slcan_state, host_out,
                  isr_buf, rx_count, host_count,
                  host_in, cmd_log, captured, enq_hist,
                  deq_hist, sent_log, discarded, rx_queue >>

\* part_001:78, the loop test of can_rx_task
FwdLoop ==
  /\ fwd_pc = "loop"
  /\ fwd_pc' = IF g_bridge_running THEN "recv" ELSE "stopped"
  /\ UNCHANGED << pc, ret, probeState, nodes, adapter_calls, bridgeVars,
                  task_qf, usb_pc, buffer, pos, slcan_state, host_out,
                  isr_buf, rx_count, host_count,
                  host_in, cmd_log, captured, enq_hist,
                  deq_hist, sent_log, discarded, rx_queue >>

\* part_001:80 when an entry is there: copy it into the local queued_frame
FwdReceive ==
  /\ fwd_pc = "recv"
  /\ rx_queue # << >>
  /\ task_qf' = xQueueReceive(rx_queue).item
  /\ rx_queue' = xQueueReceive(rx_queue).rest
  /\ deq_hist' = Append(deq_hist, task_qf')
  /\ fwd_pc' = "send"
  /\ UNCHANGED << pc, ret, probeState, nodes, adapter_calls, bridgeVars,
                  usb_pc, buffer, pos, slcan_state, host_out, isr_buf,
                  rx_count, host_count,
                  host_in, cmd_log, captured, enq_hist, sent_log,
                  discarded >>

\* part_001:80 when the 100 ms wait ends with the queue still empty
FwdReceiveTimeout ==
  /\ fwd_pc = "recv"
  /\ rx_queue = << >>
  /\ fwd_pc' = "loop"
  /\ UNCHANGED << pc, ret, probeState, nodes, adapter_calls, bridgeVars,
                  task_qf, usb_pc, buffer, pos, slcan_state, host_out,
                  isr_buf, rx_count, host_count,
                  host_in, cmd_log, captured, enq_hist,
                  deq_hist, sent_log, discarded, rx_queue >>

\* slcan_send_frame without the test of the open flag
FwdSendCheckNoGate ==
  /\ fwd_pc = "send"
  /\ fwd_pc' = "format"
  /\ UNCHANGED << pc, ret, probeState, nodes, adapter_calls, bridgeVars,
                  task_qf, usb_pc, buffer, pos, slcan_state, host_out,
                  isr_buf, rx_count, host_count,
                  host_in, cmd_log, captured, enq_hist,
                  deq_hist, sent_log, discarded, rx_queue >>

\* part_001:82 and slcan_protocol.c:171-173: slcan_send_frame is entered and
\* tests the open flag
FwdSendCheck ==
  /\ fwd_pc = "send"
  /\ IF slcan_state.is_open
       THEN /\ fwd_pc' = "format"
            /\ UNCHANGED discarded
       ELSE /\ fwd_pc' = "loop"
            /\ discarded' = discarded + 1
  /\ UNCHANGED << pc, ret, probeState, nodes, adapter_calls, bridgeVars,
                  task_qf, usb_pc, buffer, pos, slcan_state, host_out,
                  isr_buf, rx_count, host_count,
                  host_in, cmd_log, captured, enq_hist,
                  deq_hist, sent_log, rx_queue >>

\* slcan_protocol.c:175-223: format the line, reading the payload through
\* frame->buffer, and write it
FwdSendWrite ==
  /\ fwd_pc = "format"
  /\ LET mem == Deref(task_qf.buffer)
         line == FrameLine(task_qf.hdr, mem, slcan_state.timestamp_enabled)
     IN  /\ host_out' = Append(host_out, line)
         /\ sent_log' = Append(sent_log,
              [entry |-> task_qf,
               read |-> [k \in 1 .. (IF task_qf.hdr.rtr THEN 0
                                       ELSE ClampDlc(task_qf.hdr.dlc))
                           |-> ReadByte(mem, k)],
               line |-> line])
  /\ fwd_pc' = "loop"
  /\ UNCHANGED << pc, ret, probeState, nodes, adapter_calls, bridgeVars,
                  task_qf, usb_pc, buffer, pos, slcan_state, isr_buf,
                  rx_count, host_count,
                  host_in, cmd_log, captured, enq_hist, deq_hist,
                  discarded, rx_queue >>

\* a command reader that does not empty the line buffer after a dispatch
usb_rx_task_KeepsLine(c) ==
  /\ usb_pc = "loop"
  /\ IF ~g_bridge_running
       THEN /\ usb_pc' = "stopped"
            /\ UNCHANGED << buffer, pos, slcan_state, host_out, host_count,
                            host_in, cmd_log >>
       ELSE
    /\ usb_pc' = "loop"
    /\ host_count' = IF c = "EOF" THEN host_count ELSE host_count + 1
    /\ host_in' = IF c = "EOF" THEN host_in ELSE Append(host_in, c)
    /\ IF c = "EOF"
         THEN UNCHANGED << buffer, pos, slcan_state, host_out, cmd_log >>
       ELSE IF c = CR \/ c = LF
         THEN IF pos > 0
                THEN LET r == slcan_process_command(slcan_state, buffer, pos)
                     IN  /\ slcan_state' = r.state
                         /\ host_out' = host_out \o r.out
                         /\ cmd_log' = Append(cmd_log,
                              [data |-> SubSeq(buffer, 1, pos),
                               before |-> slcan_state,
                               after |-> r.state,
                               out |-> r.out])
                         /\ UNCHANGED << buffer, pos >>
                ELSE UNCHANGED << buffer, pos, slcan_state, host_out,
                                  cmd_log >>
       ELSE IF pos < LINE_BUFFER_SIZE - 1
         THEN /\ buffer' = Append(buffer, c)
              /\ pos' = pos + 1
              /\ UNCHANGED << slcan_state, host_out, cmd_log >>
         ELSE /\ pos' = 0
              /\ buffer' = << >>
              /\ UNCHANGED << slcan_state, host_out, cmd_log >>
  /\ UNCHANGED << pc, ret, probeState, nodes, adapter_calls, bridgeVars,
                  fwd_pc, task_qf, isr_buf, rx_count, captured, enq_hist,
                  deq_hist, sent_log, discarded, rx_queue >>

\* a command reader that ignores the bytes that do not fit, without reset
usb_rx_task_DropsExtraBytes(c) ==
  /\ usb_pc = "loop"
  /\ IF ~g_bridge_running
       THEN /\ usb_pc' = "stopped"
            /\ UNCHANGED << buffer, pos, slcan_state, host_out, host_count,
                            host_in, cmd_log >>
       ELSE
    /\ usb_pc' = "loop"
    /\ host_count' = IF c = "EOF" THEN host_count ELSE host_count + 1
    /\ host_in' = IF c = "EOF" THEN host_in ELSE Append(host_in, c)
    /\ IF c = "EOF"
         THEN UNCHANGED << buffer, pos, slcan_state, host_out, cmd_log >>
       ELSE IF c = CR \/ c = LF
         THEN IF pos > 0
                THEN LET r == slcan_process_command(slcan_state, buffer, pos)
                     IN  /\ slcan_state' = r.state
                         /\ host_out' = host_out \o r.out
                         /\ cmd_log' = Append(cmd_log,
                              [data |-> SubSeq(buffer, 1, pos),
                               before |-> slcan_state,
                               after |-> r.state,
                               out |-> r.out])
                         /\ pos' = 0
                         /\ buffer' = << >>
                ELSE UNCHANGED << buffer, pos, slcan_state, host_out,
                                  cmd_log >>
       ELSE IF pos < LINE_BUFFER_SIZE - 1
         THEN /\ buffer' = Append(buffer, c)
              /\ pos' = pos + 1
              /\ UNCHANGED << slcan_state, host_out, cmd_log >>
         ELSE UNCHANGED << buffer, pos, slcan_state, host_out, cmd_log >>
  /\ UNCHANGED << pc, ret, probeState, nodes, adapter_calls, bridgeVars,
                  fwd_pc, task_qf, isr_buf, rx_count, captured, enq_hist,
                  deq_hist, sent_log, discarded, rx_queue >>

\* a command reader whose overflow reset keeps the byte that overflowed
usb_rx_task_KeepsOverflowByte(c) ==
  /\ usb_pc = "loop"
  /\ IF ~g_bridge_running
       THEN /\ usb_pc' = "stopped"
            /\ UNCHANGED << buffer, pos, slcan_state, host_out, host_count,
                            host_in, cmd_log >>
       ELSE
    /\ usb_pc' = "loop"
    /\ host_count' = IF c = "EOF" THEN host_count ELSE host_count + 1
    /\ host_in' = IF c = "EOF" THEN host_in ELSE Append(host_in, c)
    /\ IF c = "EOF"
         THEN UNCHANGED << buffer, pos, slcan_state, host_out, cmd_log >>
       ELSE IF c = CR \/ c = LF
         THEN IF pos > 0
                THEN LET r == slcan_process_command(slcan_state, buffer, pos)
                     IN  /\ slcan_state' = r.state
                         /\ host_out' = host_out \o r.out
                         /\ cmd_log' = Append(cmd_log,
                              [data |-> SubSeq(buffer, 1, pos),
                               before |-> slcan_state,
                               after |-> r.state,
                               out |-> r.out])
                         /\ pos' = 0
                         /\ buffer' = << >>
                ELSE UNCHANGED << buffer, pos, slcan_state, host_out,
                                  cmd_log >>
       ELSE IF pos < LINE_BUFFER_SIZE - 1
         THEN /\ buffer' = Append(buffer, c)
              /\ pos' = pos + 1
              /\ UNCHANGED << slcan_state, host_out, cmd_log >>
         ELSE /\ pos' = 1
              /\ buffer' = << c >>
              /\ UNCHANGED << slcan_state, host_out, cmd_log >>
  /\ UNCHANGED << pc, ret, probeState, nodes, adapter_calls, bridgeVars,
                  fwd_pc, task_qf, isr_buf, rx_count, captured, enq_hist,
                  deq_hist, sent_log, discarded, rx_queue >>

\* a command reader that fills all 128 bytes before it resets
usb_rx_task_OffByOne(c) ==
  /\ usb_pc = "loop"
  /\ IF ~g_bridge_running
       THEN /\ usb_pc' = "stopped"
            /\ UNCHANGED << buffer, pos, slcan_state, host_out, host_count,
                            host_in, cmd_log >>
       ELSE
    /\ usb_pc' = "loop"
    /\ host_count' = IF c = "EOF" THEN host_count ELSE host_count + 1
    /\ host_in' = IF c = "EOF" THEN host_in ELSE Append(host_in, c)
    /\ IF c = "EOF"
         THEN UNCHANGED << buffer, pos, slcan_state, host_out, cmd_log >>
       ELSE IF c = CR \/ c = LF
         THEN IF pos > 0
                THEN LET r == slcan_process_command(slcan_state, buffer, pos)
                     IN  /\ slcan_state' = r.state
                         /\ host_out' = host_out \o r.out
                         /\ cmd_log' = Append(cmd_log,
                              [data |-> SubSeq(buffer, 1, pos),
                               before |-> slcan_state,
                               after |-> r.state,
                               out |-> r.out])
                         /\ pos' = 0
                         /\ buffer' = << >>
                ELSE UNCHANGED << buffer, pos, slcan_state, host_out,
                                  cmd_log >>
       ELSE IF pos < LINE_BUFFER_SIZE
         THEN /\ buffer' = Append(buffer, c)
              /\ pos' = pos + 1
              /\ UNCHANGED << slcan_state, host_out, cmd_log >>
         ELSE /\ pos' = 0
              /\ buffer' = << >>
              /\ UNCHANGED << slcan_state, host_out, cmd_log >>
  /\ UNCHANGED << pc, ret, probeState, nodes, adapter_calls, bridgeVars,
                  fwd_pc, task_qf, isr_buf, rx_count, captured, enq_hist,
                  deq_hist, sent_log, discarded, rx_queue >>

\* a command reader that hands t/T/r/R lines to the controller
usb_rx_task_TransmitsFrames(c) ==
  /\ usb_pc = "loop"
  /\ IF ~g_bridge_running
       THEN /\ usb_pc' = "stopped"
            /\ UNCHANGED << buffer, pos, slcan_state, host_out, host_count,
                            host_in, cmd_log >>
       ELSE
    /\ usb_pc' = "loop"
    /\ host_count' = IF c = "EOF" THEN host_count ELSE host_count + 1
    /\ host_in' = IF c = "EOF" THEN host_in ELSE Append(host_in, c)
    /\ IF c = "EOF"
         THEN UNCHANGED << buffer, pos, slcan_state, host_out, cmd_log >>
       ELSE IF c = CR \/ c = LF
         THEN IF pos > 0
                THEN LET r == slcan_process_command(slcan_state, buffer, pos)
                     IN  /\ slcan_state' = r.state
                         /\ host_out' = host_out \o r.out
                         /\ cmd_log' = Append(cmd_log,
                              [data |-> SubSeq(buffer, 1, pos),
                               before |-> slcan_state,
                               after |-> r.state,
                               out |-> r.out])
                         /\ pos' = 0
                         /\ buffer' = << >>
                ELSE UNCHANGED << buffer, pos, slcan_state, host_out,
                                  cmd_log >>
       ELSE IF pos < LINE_BUFFER_SIZE - 1
         THEN /\ buffer' = Append(buffer, c)
              /\ pos' = pos + 1
              /\ UNCHANGED << slcan_state, host_out, cmd_log >>
         ELSE /\ pos' = 0
              /\ buffer' = << >>
              /\ UNCHANGED << slcan_state, host_out, cmd_log >>
  /\ adapter_calls' =
       IF /\ g_bridge_running
          /\ c \in { CR, LF }
          /\ pos > 0
          /\ buffer[1] \in { "t", "T", "r", "R" }
         THEN adapter_calls \cup { "twai_node_transmit" }
         ELSE adapter_calls
  /\ UNCHANGED << pc, ret, probeState, nodes, bridgeVars,
                  fwd_pc, task_qf, isr_buf, rx_count, captured, enq_hist,
                  deq_hist, sent_log, discarded, rx_queue >>

\* part_001:100-129, one iteration of usb_rx_task for the byte c that
\* fgetc returned ("EOF": none)
usb_rx_task(c) ==
  /\ usb_pc = "loop"
  /\ IF ~g_bridge_running
       THEN /\ usb_pc' = "stopped"
            /\ UNCHANGED << buffer, pos, slcan_state, host_out, host_count,
                            host_in, cmd_log >>
       ELSE
    /\ usb_pc' = "loop"
    /\ host_count' = IF c = "EOF" THEN host_count ELSE host_count + 1
    /\ host_in' = IF c = "EOF" THEN host_in ELSE Append(host_in, c)
    /\ IF c = "EOF"
         THEN UNCHANGED << buffer, pos, slcan_state, host_out, cmd_log >>
       ELSE IF c = CR \/ c = LF
         THEN IF pos > 0
                THEN LET r == slcan_process_command(slcan_state, buffer, pos)
                     IN  /\ slcan_state' = r.state
                         /\ host_out' = host_out \o r.out
                         /\ cmd_log' = Append(cmd_log,
                              [data |-> SubSeq(buffer, 1, pos),
                               before |-> slcan_state,
                               after |-> r.state,
                               out |-> r.out])
                         /\ pos' = 0
                         /\ buffer' = << >>
                ELSE UNCHANGED << buffer, pos, slcan_state, host_out,
                                  cmd_log >>
       ELSE IF pos < LINE_BUFFER_SIZE - 1
         THEN /\ buffer' = Append(buffer, c)
              /\ pos' = pos + 1
              /\ UNCHANGED << slcan_state, host_out, cmd_log >>
         ELSE /\ pos' = 0
              /\ buffer' = << >>
              /\ UNCHANGED << slcan_state, host_out, cmd_log >>
  /\ UNCHANGED << pc, ret, probeState, nodes, adapter_calls, bridgeVars,
                  fwd_pc, task_qf, isr_buf, rx_count, captured, enq_hist,
                  deq_hist, sent_log, discarded, rx_queue >>

\* part_001:242-244: app_main sleeps for ever
AppMainIdle ==
  /\ pc = "main_loop"
  /\ UNCHANGED vars


\* ------------------------------------------------------------------------
\* Environment
\* ------------------------------------------------------------------------
Frame(id, ide, rtr, dlc, data) ==
  [hdr |-> [id |-> id, ide |-> ide, rtr |-> rtr, dlc |-> dlc], data |-> data]

\* frames on the bus in Spec: t123 2 DE AD, R1ABCDEF0 0, t7FF 1 11
SampleFrames ==
  { Frame(291, FALSE, FALSE, 2, << 222, 173 >>),
    Frame(448585456, TRUE, TRUE, 0, << >>),
    Frame(2047, FALSE, FALSE, 1, << 17 >>) }

\* bytes the host sends in Spec
HostAlphabet == { "O", "C", CR }

\* what another interrupt handler leaves in the stack slot of the ISR's
\* data_buffer
StackGarbage == << 165, 165, 165, 165, 165, 165, 165, 165 >>

\* the bus delivers a frame to the enabled relay session
BusRx ==
  /\ rx_count < MaxRxFrames
  /\ \E f \in SampleFrames, ok \in BOOLEAN : can_rx_callback(f, ok)

\* the host sends a byte, or fgetc finds none
HostByte ==
  \/ /\ host_count < MaxHostBytes
     /\ \E c \in HostAlphabet : usb_rx_task(c)
  \/ usb_rx_task("EOF")

\* another interrupt runs on the stack the CAN ISR used
StackReuse ==
  /\ captured # << >>
  /\ isr_buf # StackGarbage
  /\ isr_buf' = StackGarbage
  /\ UNCHANGED << pc, ret, probeState, nodes, adapter_calls, bridgeVars,
                  fwd_pc, task_qf, usb_pc, buffer, pos, slcan_state,
                  host_out, rx_count, host_count,
                  host_in, cmd_log, captured, enq_hist,
                  deq_hist, sent_log, discarded, rx_queue >>

Startup ==
  \/ AppMainStart
  \/ AutodetectLoop
  \/ AutodetectCheck
  \/ AutodetectSettle
  \/ TryNew
  \/ TryRegister
  \/ TryEnable
  \/ TryPoll
  \/ TryDelay
  \/ DetectionRx
  \/ InitAfterDetect
  \/ InitBridgeNode
  \/ InitQueue
  \/ InitRegister
  \/ InitEnable
  \/ AppMainCheck
  \/ AppMainCreateCanRx
  \/ AppMainCreateUsbRx
  \/ AppMainIdle

Forwarder ==
  \/ FwdLoop
  \/ FwdReceive
  \/ FwdReceiveTimeout
  \/ FwdSendCheck
  \/ FwdSendWrite

Next ==
  \/ Startup
  \/ Forwarder
  \/ BusRx
  \/ HostByte
  \/ StackReuse

Spec == Init /\ [][Next]_vars


\* ------------------------------------------------------------------------
\* Bit-rate prober: C1 - C5
\* ------------------------------------------------------------------------
\* can_autodetect_bitrate is running (try_bitrate included)
Probing ==
  pc \in { "autodetect_loop", "try_new", "try_register", "try_enable",
           "try_poll", "try_delay", "try_ret", "settle" }

\* can_autodetect_bitrate returned ESP_ERR_TIMEOUT (no other call sets ret
\* to that value)
DetectFailed == ret = ESP_ERR_TIMEOUT

\* C1: when can_autodetect_bitrate has returned and a frame was received
\* inside the timeout window of some candidate's attempt, the result is
\* ESP_OK with the first such candidate of the priority list, whatever the
\* instant of the window at which the frame arrived.
C1_FirstAvailableRateDetected ==
  (pc = "autodetect_ret" /\ first_avail # 0)
    => (ret = ESP_OK /\ detected_bitrate = bitrate_list[first_avail])

\* C2: when detection fails, try_bitrate has run exactly once per candidate,
\* in list order, and detected_bitrate was not written; try_bitrate never
\* runs more often than once per candidate (no restart of the cycle).
C2_FailureAfterEachCandidateOnce ==
  /\ Len(tried) <= BITRATE_COUNT
  /\ tried = SubSeq(bitrate_list, 1, Len(tried))
  /\ DetectFailed => (tried = bitrate_list /\ detected_bitrate = 0)

C2_Witness == pc = "autodetect_ret" /\ DetectFailed

\* C3: while the prober runs, every controller session that exists is in
\* listen-only mode and no transmit was issued to the controller.
C3_ProbeListenOnly ==
  Probing => /\ \A n \in nodes : n.listen_only
             /\ "twai_node_transmit" \notin adapter_calls

C3_Witness ==
  /\ pc = "try_delay"
  /\ \E n \in nodes : n.enabled /\ n.listen_only /\ n.owner = "probe"

\* C4: at most one controller session exists; a probe session exists only
\* inside the try_bitrate that created it, so none exists when the next
\* candidate is tested, when the prober returns, or when can_bridge_init
\* creates the relay session.
C4_OneSessionReleasedOnEveryExit ==
  /\ Cardinality(nodes) <= 1
  /\ \A n \in nodes :
       n.owner = "probe" =>
         /\ pc \in { "try_register", "try_enable", "try_poll", "try_delay" }
         /\ HandleOf(n) = ProbeHandle
  /\ pc \in { "autodetect_loop", "try_new", "try_ret", "settle",
              "autodetect_ret", "bridge_init" } => nodes = {}

C4_Witness ==
  /\ pc = "bridge_init"
  /\ Len(tried) >= 2
  /\ nodes = {}
  /\ "twai_node_delete" \in adapter_calls

\* C5: after a failed detection the run flag is false, neither the relay
\* session nor the queue exists, and neither task has been created.
C5_NoRelayAfterFailedDetection ==
  DetectFailed =>
    /\ ~g_bridge_running
    /\ g_node_handle = NoHandle
    /\ nodes = {}
    /\ g_rx_queue = "NULL"
    /\ ~queue_alive
    /\ fwd_pc = "not_created"
    /\ usb_pc = "not_created"

C5_Witness == pc = "halted" /\ DetectFailed


\* ------------------------------------------------------------------------
\* Relay phase on its own: the state app_main leaves behind once both tasks
\* are created (125 kbit/s detected at the first attempt), and the steps of
\* the relay
\* ------------------------------------------------------------------------
BridgeUp ==
  /\ pc = "main_loop"
  /\ i = 1
  /\ try_ret = ESP_OK
  /\ ret = ESP_OK
  /\ elapsed = 0
  /\ frame_received = TRUE
  /\ detected_bitrate = CAN_BITRATE_125K
  /\ nodes = { [owner |-> "relay", bitrate |-> CAN_BITRATE_125K,
                tx_queue_depth |-> 10, listen_only |-> FALSE,
                enabled |-> TRUE, cb |-> "can_rx_callback"] }
  /\ adapter_calls =
       { "twai_new_node_onchip", "twai_node_register_event_callbacks",
         "twai_node_enable", "twai_node_receive_from_isr",
         "twai_node_disable", "twai_node_delete" }
  /\ tried = << CAN_BITRATE_125K >>
  /\ first_avail = 1
  /\ heard = TRUE
  /\ g_node_handle = [owner |-> "relay", bitrate |-> CAN_BITRATE_125K]
  /\ g_rx_queue = "rx_queue"
  /\ queue_alive = TRUE
  /\ g_bridge_running = TRUE
  /\ usb_pc = "loop"
  /\ rx_count = 0
  /\ captured = << >>
  /\ enq_hist = << >>
  /\ rx_queue = << >>
  /\ sent_log = << >>
  /\ discarded = 0

\* ... and the command reader has an empty line buffer
Started ==
  /\ BridgeUp
  /\ buffer = << >>
  /\ pos = 0

\* the bridge has just started: nothing received from the bus or the host
InitRelay ==
  /\ Started
  /\ fwd_pc = "loop"
  /\ task_qf = NoFrame
  /\ deq_hist = << >>
  /\ slcan_state = slcan_init
  /\ host_out = << >>
  /\ host_count = 0
  /\ host_in = << >>
  /\ cmd_log = << >>
  /\ isr_buf = << >>

RelayNext ==
  \/ Forwarder
  \/ BusRx
  \/ HostByte
  \/ StackReuse

\* both tasks have priority 10 and every wait of usb_rx_task is bounded
\* (part_001:105, 238-239), so the forwarder always gets to run
FairRelaySpec == InitRelay /\ [][RelayNext]_vars /\ WF_vars(Forwarder)

\* ------------------------------------------------------------------------
\* A stalled or slow forwarder: the host has opened the channel ("O\r") and
\* the bus delivers StallFrames frames with identifiers 1, 2, 3, ...
\* ------------------------------------------------------------------------
\* the dispatch of "O" on the channel state of start-up
OpenedLog ==
  << [data |-> << "O" >>, before |-> slcan_init,
      after |-> [slcan_init EXCEPT !.is_open = TRUE],
      out |-> << << CR >> >>] >>

NumberedFrame(k) == Frame(k, FALSE, FALSE, 0, << >>)

InitStall ==
  /\ Started
  /\ fwd_pc = "loop"
  /\ task_qf = NoFrame
  /\ deq_hist = << >>
  /\ slcan_state = [slcan_init EXCEPT !.is_open = TRUE]
  /\ host_out = << << CR >> >>
  /\ host_count = 2
  /\ host_in = << "O", CR >>
  /\ cmd_log = OpenedLog
  /\ isr_buf = << >>

BusRxNumbered ==
  /\ rx_count < StallFrames
  /\ can_rx_callback(NumberedFrame(rx_count + 1), TRUE)

StallNext ==
  \/ Forwarder
  \/ BusRxNumbered

StallSpec == InitStall /\ [][StallNext]_vars

\* ------------------------------------------------------------------------
\* Cancellation: something outside the two tasks clears the run flag while
\* the relay runs (the program itself never does)
\* ------------------------------------------------------------------------
ClearRunFlag ==
  /\ g_bridge_running
  /\ g_bridge_running' = FALSE
  /\ UNCHANGED << pc, ret, probeState, nodes, adapter_calls, g_node_handle,
                  g_rx_queue, queue_alive, relayVars >>

ShutdownNext ==
  \/ RelayNext
  \/ ClearRunFlag

\* both tasks have priority 10; xQueueReceive waits at most 100 ms and an
\* empty stdin costs the reader 10 ms (part_001:80, 104-105), so each task
\* reaches its loop condition again and again
ShutdownSpec ==
  /\ InitRelay
  /\ [][ShutdownNext]_vars
  /\ WF_vars(Forwarder)
  /\ WF_vars(HostByte)

\* ------------------------------------------------------------------------
\* Closing the channel while frames arrive: the host has opened the
\* channel ("O\r") and sends up to MaxHostBytes more bytes
\* ------------------------------------------------------------------------
HostByteAfterOpen ==
  \/ /\ host_count < Len(OpenedLog[1].data) + 1 + MaxHostBytes
     /\ \E c \in HostAlphabet : usb_rx_task(c)
  \/ usb_rx_task("EOF")

CloseNext ==
  \/ Forwarder
  \/ BusRx
  \/ HostByteAfterOpen

CloseSpec == InitStall /\ [][CloseNext]_vars

\* ------------------------------------------------------------------------
\* The encoder on its own: can_rx_task has just dequeued one frame whose
\* buffer memory is intact, the channel is open
\* ------------------------------------------------------------------------
\* identifiers: 0, 0x123, 0x7FF, 0x800, 0x1ABCDEF0, 0x1FFFFFFF
EncIds == { 0, 291, 2047, 2048, 448585456, 536870911 }

EncDlcs == { 0, 2, 8, 15 }

\* the payload of a data frame with the given DLC
EncData(dlc) ==
  SubSeq(<< 222, 173, 0, 255, 18, 52, 86, 120 >>, 1, Min(dlc, MAX_DLC))

\* valid frames: a standard frame's identifier fits in 11 bits
EncFrames ==
  { Frame(id, ide, rtr, dlc, IF rtr THEN << >> ELSE EncData(dlc)) :
      id \in EncIds, ide \in BOOLEAN, rtr \in BOOLEAN, dlc \in EncDlcs }
  \ { f \in [hdr : [id : EncIds, ide : {FALSE}, rtr : BOOLEAN, dlc : EncDlcs],
             data : { EncData(d) : d \in EncDlcs } \cup { << >> }] :
        f.hdr.id > STD_ID_MAX }

InitEncode ==
  /\ Started
  /\ \E f \in EncFrames, ts \in {0, 1} :
       /\ task_qf = [hdr |-> f.hdr, buffer |-> "isr_stack",
                     data_buffer |-> f.data]
       /\ isr_buf = f.data
       /\ slcan_state = [is_open |-> TRUE, bitrate |-> 0,
                         timestamp_enabled |-> ts]
       /\ host_in = << "O", CR >>
                      \o (IF ts = 1 THEN << "Z", "1", CR >> ELSE << >>)
       /\ host_out = << << CR >> >>
                       \o (IF ts = 1 THEN << << CR >> >> ELSE << >>)
       /\ cmd_log = OpenedLog
                      \o (IF ts = 1
                            THEN << [data |-> << "Z", "1" >>,
                                     before |-> OpenedLog[1].after,
                                     after |-> slcan_state,
                                     out |-> << << CR >> >>] >>
                            ELSE << >>)
  /\ host_count = Len(host_in)
  /\ deq_hist = << task_qf >>
  /\ fwd_pc = "send"

EncodeNext ==
  \/ FwdSendCheck
  \/ FwdSendWrite

EncodeSpec == InitEncode /\ [][EncodeNext]_vars


\* ------------------------------------------------------------------------
\* The command dispatcher on its own: the reader holds one complete line
\* and reads its terminator.  The channel state is the one left by a few
\* commands dispatched since start-up.
\* ------------------------------------------------------------------------
\* what dispatching the given lines, each ended by CR, leaves behind
RECURSIVE Replay(_)
Replay(lines) ==
  IF lines = << >>
    THEN [state |-> slcan_init, out |-> << >>, log |-> << >>, in |-> << >>]
    ELSE LET p == Replay(SubSeq(lines, 1, Len(lines) - 1))
             l == lines[Len(lines)]
             r == slcan_process_command(p.state, l, Len(l))
         IN  [state |-> r.state,
              out |-> p.out \o r.out,
              log |-> Append(p.log, [data |-> l, before |-> p.state,
                                     after |-> r.state, out |-> r.out]),
              in |-> p.in \o l \o << CR >>]

\* earlier commands: they reach every combination of open flag, timestamp
\* flag and a stored bitrate of 0 or 500000
Preambles ==
  { << >>,
    << << "O" >> >>,
    << << "Z", "1" >> >>,
    << << "S", "6" >> >>,
    << << "O" >>, << "Z", "1" >> >>,
    << << "O" >>, << "S", "6" >> >>,
    << << "S", "6" >>, << "Z", "1" >> >>,
    << << "O" >>, << "S", "6" >>, << "Z", "1" >> >> }

\* the lines dispatched
CmdLines ==
  { << "X" >>,
    << "s", "1" >>,
    << "1" >>,
    << "X", "O" >>,
    << "G", "1", "2" >>,
    << "S", "0" >>,
    << "S", "1" >>,
    << "S", "2" >>,
    << "S", "3" >>,
    << "S", "4" >>,
    << "S", "5" >>,
    << "S", "6" >>,
    << "S", "7" >>,
    << "S", "8" >>,
    << "S", "9" >>,
    << "S", "A" >>,
    << "S" >>,
    << "S", "1", "0" >>,
    << "Z", "1" >>,
    << "Z", "0" >>,
    << "Z" >>,
    << "Z", "5" >>,
    << "O" >>,
    << "C" >>,
    << "V" >>,
    << "v" >>,
    << "N" >>,
    << "F" >>,
    << "t", "1", "2", "3", "2", "D", "E", "A", "D" >>,
    << "t" >>,
    << "t", "1", "2" >>,
    << "t", "X", "Y", "Z", "0" >>,
    << "t", "1", "2", "3", "9" >>,
    << "t", "1", "2", "3", "2", "D", "E" >>,
    << "t", "1", "2", "3", "1", "G", "G" >>,
    << "T", "1", "A", "B", "C", "D", "E", "F", "0", "0" >>,
    << "T", "1", "2", "3", "0" >>,
    << "r", "1", "2", "3", "0" >>,
    << "r", "1", "2" >>,
    << "R", "1", "A", "B", "C", "D", "E", "F", "0", "8" >>,
    << "R" >> }

\* the bridge runs, nothing has come from the bus
RelayIdle ==
  /\ BridgeUp
  /\ fwd_pc = "loop"
  /\ task_qf = NoFrame
  /\ deq_hist = << >>
  /\ isr_buf = << >>

InitCommand ==
  /\ RelayIdle
  /\ \E pre \in Preambles, line \in CmdLines :
       /\ slcan_state = Replay(pre).state
       /\ host_out = Replay(pre).out
       /\ cmd_log = Replay(pre).log
       /\ host_in = Replay(pre).in \o line
       /\ buffer = line
       /\ pos = Len(line)
  /\ host_count = Len(host_in)

\* the line's terminator arrives
CommandNext ==
  /\ pos > 0
  /\ \E c \in { CR, LF } : usb_rx_task(c)

CommandSpec == InitCommand /\ [][CommandNext]_vars

\* ------------------------------------------------------------------------
\* The command reader on its own: the host sends up to MaxCmdBytes bytes
\* to the running bridge; the histories start with this run
\* ------------------------------------------------------------------------
\* the channel states earlier commands can leave
ChannelStates == { Replay(pre).state : pre \in Preambles }

ReaderAlphabet == { "Z", "0", "1", CR, LF }

InitReader ==
  /\ RelayIdle
  /\ buffer = << >>
  /\ pos = 0
  /\ slcan_state \in ChannelStates
  /\ host_out = << >>
  /\ host_in = << >>
  /\ cmd_log = << >>
  /\ host_count = 0

ReaderNext ==
  \/ /\ host_count < MaxCmdBytes
     /\ \E c \in ReaderAlphabet : usb_rx_task(c)
  \/ usb_rx_task("EOF")

ReaderSpec == InitReader /\ [][ReaderNext]_vars

\* ------------------------------------------------------------------------
\* The whole program from power-up with a host that sends bitrate,
\* timestamp, open and close commands and a bus that carries one frame
\* ------------------------------------------------------------------------
ChannelBusFrames == << Frame(291, FALSE, FALSE, 2, << 222, 173 >>) >>

ChannelAlphabet == { "O", "C", "S", "6", "Z", "1", CR }

BusRxScript ==
  /\ rx_count < Len(ChannelBusFrames)
  /\ can_rx_callback(ChannelBusFrames[rx_count + 1], TRUE)

HostChannelByte ==
  \/ /\ host_count < MaxChannelBytes
     /\ \E c \in ChannelAlphabet : usb_rx_task(c)
  \/ usb_rx_task("EOF")

ChannelNext ==
  \/ Startup
  \/ Forwarder
  \/ BusRxScript
  \/ HostChannelByte

ChannelSpec == Init /\ [][ChannelNext]_vars

\* ------------------------------------------------------------------------
\* The command reader at the end of its line buffer: since start-up the
\* host has sent 126 or 127 letters A without a terminator, and sends more
\* ------------------------------------------------------------------------
OverflowAlphabet == { "A", "O", CR }

InitOverflow ==
  /\ RelayIdle
  /\ slcan_state = slcan_init
  /\ \E n \in { LINE_BUFFER_SIZE - 2, LINE_BUFFER_SIZE - 1 } :
       /\ buffer = [k \in 1 .. n |-> "A"]
       /\ pos = n
  /\ host_in = buffer
  /\ host_count = pos
  /\ host_out = << >>
  /\ cmd_log = << >>

OverflowNext ==
  \/ /\ host_count < LINE_BUFFER_SIZE - 1 + MaxOverflowBytes
     /\ \E c \in OverflowAlphabet : usb_rx_task(c)
  \/ usb_rx_task("EOF")

OverflowSpec == InitOverflow /\ [][OverflowNext]_vars

\* ------------------------------------------------------------------------
\* Hand-off queue and forwarder: C6 - C9
\* ------------------------------------------------------------------------
\* C6: the entries can_rx_task has dequeued are, in order, the first of the
\* entries the interrupt enqueued, and the entries not yet dequeued are
\* exactly the queue's contents: nothing reordered, duplicated or lost.
C6_DequeuedIsPrefixOfEnqueued ==
  /\ Len(deq_hist) <= Len(enq_hist)
  /\ deq_hist = SubSeq(enq_hist, 1, Len(deq_hist))
  /\ enq_hist = deq_hist \o rx_queue

C6_Witness ==
  /\ Len(deq_hist) = 2
  /\ deq_hist[1] # deq_hist[2]

\* C7: the queue never holds more than RX_QUEUE_LEN (50) entries, and as
\* long as the forwarder has dequeued nothing it holds the first 50 frames
\* the interrupt captured: a frame captured while the queue is full is
\* dropped and the contents stay as they were.
C7_QueueBoundedKeepsFirst ==
  /\ Len(rx_queue) <= RX_QUEUE_LEN
  /\ deq_hist = << >> =>
       rx_queue = SubSeq(captured, 1, Min(Len(captured), RX_QUEUE_LEN))

C7_Witness ==
  /\ deq_hist = << >>
  /\ Len(captured) > RX_QUEUE_LEN
  /\ Len(rx_queue) = RX_QUEUE_LEN

\* C8: the payload bytes read while formatting a frame line are the bytes
\* the interrupt captured for that frame (the entry's own data_buffer).
C8_EncodedBytesAreCapturedBytes ==
  \A k \in 1 .. Len(sent_log) :
    sent_log[k].read = sent_log[k].entry.data_buffer

\* the forwarder is between two frames
FwdIdle == fwd_pc \in { "loop", "recv" }

WireLine(hdr, data) ==
  LET n == Min(hdr.dlc, MAX_DLC) IN
  << (IF hdr.ide THEN (IF hdr.rtr THEN "R" ELSE "T")
                 ELSE (IF hdr.rtr THEN "r" ELSE "t")) >>
  \o FormatHex(hdr.id, IF hdr.ide THEN 8 ELSE 3)
  \o << HexChars[n + 1] >>
  \o (IF hdr.rtr THEN << >> ELSE DataHex(data, n))

IsHexChar(c) == \E k \in 1 .. 16 : HexChars[k] = c

\* line is body, then four hex digits iff stamped, then CR
IsWireLine(line, body, stamped) ==
  LET n == Len(body) IN
  IF stamped
    THEN /\ Len(line) = n + 5
         /\ SubSeq(line, 1, n) = body
         /\ \A k \in (n + 1) .. (n + 4) : IsHexChar(line[k])
         /\ line[n + 5] = CR
    ELSE line = body \o << CR >>

\* C10: every line slcan_send_frame writes is prefix t/T/r/R, identifier in
\* 3 (standard) or 8 (extended) upper-case hex digits, one DLC digit, two
\* hex digits per data byte of a data frame, four hex digits of timestamp
\* iff timestamps are enabled, and a carriage return.
C10_LineIsWireFormat ==
  \A k \in 1 .. Len(sent_log) :
    IsWireLine(sent_log[k].line,
               WireLine(sent_log[k].entry.hdr, sent_log[k].entry.data_buffer),
               slcan_state.timestamp_enabled # 0)

\* ------------------------------------------------------------------------
\* Encoder: C11 - C13
\* ------------------------------------------------------------------------
\* C11: the prefix and the identifier width of every written line follow the
\* frame's own flags: an extended frame is written with T or R and its
\* identifier in 8 digits, a standard frame with t or r and 3 digits, a
\* remote frame with r or R, whatever the identifier's value.
C11_TypeFollowsFlags ==
  \A k \in 1 .. Len(sent_log) :
    LET h == sent_log[k].entry.hdr
        l == sent_log[k].line
    IN  /\ (l[1] \in { "T", "R" }) <=> h.ide
        /\ (l[1] \in { "r", "R" }) <=> h.rtr
        /\ IF h.ide
             THEN Len(l) >= 9 /\ SubSeq(l, 2, 9) = FormatHex(h.id, 8)
             ELSE Len(l) >= 4 /\ SubSeq(l, 2, 4) = FormatHex(h.id, 3)

\* width of the identifier field of a written line, from its prefix
IdWidth(l) == IF l[1] \in { "T", "R" } THEN 8 ELSE 3

\* C12: whatever the frame's DLC, the DLC character written is the digit of
\* min(DLC, 8), a data frame's line carries exactly min(DLC, 8) data bytes
\* (two hex digits each) and a remote frame's line carries none.
C12_DlcClampedToEight ==
  \A k \in 1 .. Len(sent_log) :
    LET h == sent_log[k].entry.hdr
        l == sent_log[k].line
        w == IdWidth(l)
        n == Min(h.dlc, MAX_DLC)
        nd == IF h.rtr THEN 0 ELSE 2 * n
        ns == IF slcan_state.timestamp_enabled # 0 THEN 4 ELSE 0
    IN  /\ l[w + 2] = HexChars[n + 1]
        /\ Len(l) = 1 + w + 1 + nd + ns + 1
        /\ \A j \in (w + 3) .. (w + 2 + nd) : IsHexChar(l[j])
        /\ l[Len(l)] = CR

C12_Witness ==
  \E k \in 1 .. Len(sent_log) :
    /\ sent_log[k].entry.hdr.dlc > MAX_DLC
    /\ ~sent_log[k].entry.hdr.rtr
    /\ slcan_state.timestamp_enabled = 0
    /\ Len(sent_log[k].line) = IdWidth(sent_log[k].line) + 3 + 2 * MAX_DLC

\* the value of a string of hex digits
RECURSIVE HexValue(_)
HexValue(digits) ==
  IF digits = << >> THEN 0
  ELSE 16 * HexValue(SubSeq(digits, 1, Len(digits) - 1))
         + hex_to_nibble(digits[Len(digits)])

\* the frame a frame line of the wire format stands for: the prefix gives
\* the two flags, then the identifier in 3 or 8 digits, the DLC digit and
\* two digits per data byte of a data frame; what follows is not read
WireDecode(line) ==
  LET ide == line[1] \in { "T", "R" }
      rtr == line[1] \in { "r", "R" }
      w == IF ide THEN 8 ELSE 3
      dlc == hex_to_nibble(line[w + 2])
  IN  [id |-> HexValue(SubSeq(line, 2, w + 1)),
       ide |-> ide,
       rtr |-> rtr,
       dlc |-> dlc,
       data |-> [j \in 1 .. (IF rtr THEN 0 ELSE dlc) |->
                   hex_to_byte(<< line[w + 1 + 2 * j], line[w + 2 + 2 * j] >>)]]

\* C13: for every valid frame (identifier within the width of its flag,
\* DLC at most 8, payload of DLC bytes) decoding the line written for it
\* gives back its identifier, extended flag, remote flag, DLC and payload.
C13_DecodeEncodeRoundTrip ==
  \A k \in 1 .. Len(sent_log) :
    LET e == sent_log[k].entry IN
    e.hdr.dlc <= MAX_DLC =>
      WireDecode(sent_log[k].line) =
        [id |-> e.hdr.id, ide |-> e.hdr.ide, rtr |-> e.hdr.rtr,
         dlc |-> e.hdr.dlc, data |-> e.data_buffer]

\* ------------------------------------------------------------------------
\* Command dispatcher: C14 - C18
\* ------------------------------------------------------------------------
\* the command letters of the protocol table
CommandLetters ==
  { "S", "O", "C", "V", "v", "N", "Z", "F", "t", "T", "r", "R" }

TransmitLetters == { "t", "T", "r", "R" }

Bell == << << BEL >> >>

\* C14: a dispatched line whose first byte is not a command letter is
\* answered with exactly one bell byte and leaves the open flag, the stored
\* bitrate and the timestamp flag as they were.
C14_UnknownCommandBell ==
  \A k \in 1 .. Len(cmd_log) :
    cmd_log[k].data[1] \notin CommandLetters =>
      /\ cmd_log[k].out = Bell
      /\ cmd_log[k].after = cmd_log[k].before

C14_Witness ==
  /\ cmd_log # << >>
  /\ cmd_log[Len(cmd_log)].data = << "X", "O" >>
  /\ cmd_log[Len(cmd_log)].before.is_open
  /\ cmd_log[Len(cmd_log)].before.timestamp_enabled = 1
  /\ host_out[Len(host_out)] = << BEL >>
  /\ slcan_state = cmd_log[Len(cmd_log)].before

\* the rates of the codes 0 .. 8
TableRate(c) ==
  CASE c = "0" -> 10000 [] c = "1" -> 20000 [] c = "2" -> 50000
    [] c = "3" -> 100000 [] c = "4" -> 125000 [] c = "5" -> 250000
    [] c = "6" -> 500000 [] c = "7" -> 800000 [] c = "8" -> 1000000

\* C15: S followed by a code character 0 .. 8 stores that code's table rate
\* (changing nothing else) and answers with a carriage return; S followed
\* by any other code character answers with the bell byte and leaves the
\* channel state, the stored bitrate included, unchanged.
C15_BitrateSetByTable ==
  \A k \in 1 .. Len(cmd_log) :
    LET d == cmd_log[k] IN
    (d.data[1] = "S" /\ Len(d.data) >= 2) =>
      IF d.data[2] \in { "0", "1", "2", "3", "4", "5", "6", "7", "8" }
        THEN /\ d.after = [d.before EXCEPT !.bitrate = TableRate(d.data[2])]
             /\ d.out = << << CR >> >>
        ELSE /\ d.after = d.before
             /\ d.out = Bell

C15_Witness ==
  /\ cmd_log # << >>
  /\ cmd_log[Len(cmd_log)].data = << "S", "9" >>
  /\ cmd_log[Len(cmd_log)].before.bitrate = 500000
  /\ slcan_state.bitrate = 500000
  /\ host_out[Len(host_out)] = << BEL >>

\* C17: a dispatched line whose first byte is t, T, r or R is answered with
\* z and a carriage return, on an open and on a closed channel alike, and
\* leaves the channel state unchanged.
C17_TransmitAcknowledged ==
  \A k \in 1 .. Len(cmd_log) :
    cmd_log[k].data[1] \in TransmitLetters =>
      /\ cmd_log[k].out = << << "z", CR >> >>
      /\ cmd_log[k].after = cmd_log[k].before

C17_Witness ==
  /\ cmd_log # << >>
  /\ cmd_log[Len(cmd_log)].data[1] \in TransmitLetters
  /\ ~cmd_log[Len(cmd_log)].before.is_open
  /\ ~slcan_state.is_open
  /\ host_out[Len(host_out)] = << "z", CR >>

\* a transmit line of the wire format: prefix, identifier of 3 or 8 hex
\* digits, a DLC digit 0 .. 8 and, for a data frame, two hex digits for
\* each of the DLC bytes
WellFormedTransmit(data) ==
  LET w == IF data[1] \in { "T", "R" } THEN 8 ELSE 3
      n == hex_to_nibble(data[w + 2])
  IN  /\ Len(data) >= w + 2
      /\ \A j \in 2 .. (w + 1) : hex_to_nibble(data[j]) >= 0
      /\ n >= 0 /\ n <= MAX_DLC
      /\ IF data[1] \in { "r", "R" }
           THEN Len(data) = w + 2
           ELSE /\ Len(data) = w + 2 + 2 * n
                /\ \A j \in (w + 3) .. Len(data) : hex_to_nibble(data[j]) >= 0

Malformed(data) ==
  \/ data[1] \in { "S", "Z" } /\ Len(data) = 1
  \/ data[1] \in TransmitLetters /\ ~WellFormedTransmit(data)

\* C18: a dispatched line that starts with a command letter but is
\* malformed (S or Z without argument, a transmit line with a missing, short
\* or non-hexadecimal field) is answered with the bell byte.
C18_MalformedCommandBell ==
  \A k \in 1 .. Len(cmd_log) :
    Malformed(cmd_log[k].data) => cmd_log[k].out = Bell

\* Z1 directly followed by Z0 in the dispatch history, at positions k, k+1
Z1ThenZ0(k) ==
  /\ cmd_log[k].data = << "Z", "1" >>
  /\ cmd_log[k + 1].data = << "Z", "0" >>

\* C16 as claimed: after Z1 and then Z0 the timestamp flag has the value it
\* had before the two commands, whatever that value was.
C16_Z1Z0RestoresFlag ==
  \A k \in 1 .. (Len(cmd_log) - 1) :
    Z1ThenZ0(k) =>
      cmd_log[k + 1].after.timestamp_enabled
        = cmd_log[k].before.timestamp_enabled

\* C16 as amended: Z1 and then Z0 leave the timestamp flag off and the open
\* flag and the stored bitrate as they were, so the flag has its earlier
\* value exactly when timestamps were off before the two commands.
C16_Z1Z0LeavesTimestampsOff ==
  \A k \in 1 .. (Len(cmd_log) - 1) :
    Z1ThenZ0(k) =>
      /\ cmd_log[k].after.timestamp_enabled = 1
      /\ cmd_log[k + 1].before = cmd_log[k].after
      /\ cmd_log[k + 1].after =
           [cmd_log[k].before EXCEPT !.timestamp_enabled = 0]
      /\ (cmd_log[k + 1].after = cmd_log[k].before)
           <=> (cmd_log[k].before.timestamp_enabled = 0)

C16_Witness ==
  /\ Len(cmd_log) = 2
  /\ Z1ThenZ0(1)
  /\ cmd_log[1].before.timestamp_enabled = 1
  /\ cmd_log[1].before.is_open
  /\ slcan_state.timestamp_enabled = 0

\* ------------------------------------------------------------------------
\* Command reader: C20
\* ------------------------------------------------------------------------
Terminators == { CR, LF }

\* a byte stream cut at its terminators: the non-empty lines that were
\* ended by a terminator, and the bytes after the last terminator
RECURSIVE SplitLines(_)
SplitLines(in) ==
  IF in = << >> THEN [lines |-> << >>, cur |-> << >>]
  ELSE LET p == SplitLines(SubSeq(in, 1, Len(in) - 1))
           c == in[Len(in)]
       IN  IF c \in Terminators
             THEN [lines |-> IF p.cur = << >> THEN p.lines
                             ELSE Append(p.lines, p.cur),
                   cur |-> << >>]
             ELSE [lines |-> p.lines, cur |-> Append(p.cur, c)]

\* what the dispatches wrote, in order
RECURSIVE Responses(_)
Responses(log) ==
  IF log = << >> THEN << >>
  ELSE Responses(SubSeq(log, 1, Len(log) - 1)) \o log[Len(log)].out

\* C20: the commands dispatched are, in order, exactly the non-empty lines
\* the host has ended with a terminator, each passed with exactly its own
\* bytes; the line buffer holds the bytes read since the last terminator
\* (so it is empty after a dispatch); a terminator read with an empty buffer
\* dispatches nothing, and nothing is written but the dispatches' responses.
C20_DispatchOnTerminatorOnly ==
  LET sp == SplitLines(host_in) IN
  /\ Len(cmd_log) = Len(sp.lines)
  /\ \A k \in 1 .. Len(cmd_log) : cmd_log[k].data = sp.lines[k]
  /\ buffer = sp.cur
  /\ pos = Len(buffer)
  /\ host_out = Responses(cmd_log)

C20_Witness ==
  /\ Len(cmd_log) = 2
  /\ cmd_log[1].data = << "Z", "1" >>
  /\ cmd_log[2].data = << "0" >>
  /\ host_in = << "Z", "1", CR, LF, "0", CR >>
  /\ pos = 0

\* ------------------------------------------------------------------------
\* Channel state: C19
\* ------------------------------------------------------------------------
\* C19: the channel state starts closed, with bitrate 0 and timestamps off,
\* and keeps these values as long as no command was dispatched, in
\* particular through a successful auto-detection; a step changes it only
\* by dispatching a command: the open flag becomes true only by O and false
\* only by C, the stored bitrate changes only by S with a code 0..8, the
\* timestamp flag only by Z with an argument.  No step of the prober, the
\* receive interrupt or the forwarder changes it.
C19_ChannelStateChangedOnlyByCommands ==
  /\ slcan_state = slcan_init
  /\ [](cmd_log = << >> => slcan_state = slcan_init)
  /\ [][ slcan_state' # slcan_state =>
           /\ Len(cmd_log') = Len(cmd_log) + 1
           /\ LET d == cmd_log'[Len(cmd_log')] IN
              /\ d.before = slcan_state
              /\ d.after = slcan_state'
              /\ (slcan_state'.is_open /\ ~slcan_state.is_open)
                   => d.data[1] = "O"
              /\ (~slcan_state'.is_open /\ slcan_state.is_open)
                   => d.data[1] = "C"
              /\ slcan_state'.bitrate # slcan_state.bitrate
                   => /\ d.data[1] = "S"
                      /\ Len(d.data) >= 2
                      /\ d.data[2] \in { "0", "1", "2", "3", "4", "5", "6",
                                          "7", "8" }
              /\ slcan_state'.timestamp_enabled
                     # slcan_state.timestamp_enabled
                   => d.data[1] = "Z" /\ Len(d.data) >= 2 ]_vars

C19_Witness ==
  /\ detected_bitrate = CAN_BITRATE_250K
  /\ slcan_state.bitrate = 500000
  /\ discarded = 1
  /\ fwd_pc = "loop"

\* ------------------------------------------------------------------------
\* Start-up failures: C24 - C26
\* ------------------------------------------------------------------------
\* init_can_bridge has failed after a successful detection
StartupFailed ==
  /\ pc \in { "app_check", "halted" }
  /\ detected_bitrate # 0
  /\ ret # ESP_OK

\* C24: when a step of the bridge start-up after detection fails,
\* init_can_bridge returns an error, no controller session and no queue is
\* left, the run flag is not set and neither relay task is created.
C24_FailedStartupReleasesAll ==
  StartupFailed =>
    /\ ret \in { ESP_FAIL, ESP_ERR_NO_MEM }
    /\ nodes = { }
    /\ ~queue_alive
    /\ ~g_bridge_running
    /\ fwd_pc = "not_created"
    /\ usb_pc = "not_created"

C24_Witness ==
  /\ StartupFailed
  /\ pc = "halted"
  /\ g_rx_queue = "rx_queue"
  /\ "twai_node_enable" \in adapter_calls
  /\ ret = ESP_FAIL

\* try_bitrate has returned an adapter error for candidate i
AdapterFailed == pc = "try_ret" /\ try_ret = ESP_FAIL

\* C25: an attempt whose controller cannot be created, registered or
\* enabled ends at once, without a session and without having received
\* anything; its rate is not reported; the prober goes on to the settle
\* delay and the next candidate.
C25_AdapterFailureSkipsCandidate ==
  /\ [](AdapterFailed =>
          /\ nodes = { }
          /\ ~heard
          /\ elapsed = 0
          /\ detected_bitrate = 0)
  /\ [][ AdapterFailed =>
           /\ pc' = "settle"
           /\ detected_bitrate' = 0
           /\ i' = i
           /\ ret' = ret ]_vars
  /\ [][ (pc \in { "try_new", "try_register", "try_enable" }
            /\ pc' \notin { pc, "try_register", "try_enable", "try_poll" })
           => (pc' = "try_ret" /\ try_ret' = ESP_FAIL) ]_vars
  /\ [][ pc = "settle" => (pc' = "autodetect_loop" /\ i' = i + 1) ]_vars
  /\ [][ (pc = "autodetect_loop" /\ i <= BITRATE_COUNT)
           => (pc' = "try_new" /\ i' = i) ]_vars

C25_Witness ==
  /\ pc = "try_poll"
  /\ i = 2
  /\ try_ret = ESP_FAIL
  /\ tried = << CAN_BITRATE_125K, CAN_BITRATE_250K >>

\* C26: try_bitrate reports success only when the session of this very
\* attempt has received a frame, and the rate reported as detected is the
\* rate of that attempt; a frame of an earlier attempt does not count.
C26_DetectedRateHeardInOwnAttempt ==
  /\ (pc \in { "try_poll", "try_delay" } /\ frame_received) => heard
  /\ (pc = "try_ret" /\ try_ret = ESP_OK) => heard
  /\ detected_bitrate # 0 =>
       /\ heard
       /\ detected_bitrate = tried[Len(tried)]

C26_Witness ==
  /\ pc = "autodetect_ret"
  /\ detected_bitrate = CAN_BITRATE_250K
  /\ first_avail = 1
  /\ heard

\* ------------------------------------------------------------------------
\* Line buffer overflow: C21, C28, C29
\* ------------------------------------------------------------------------
\* the positions of the terminators in a byte stream, and the last one
\* before position t (0 if there is none)
TermPos(in) == { k \in 1 .. Len(in) : in[k] \in Terminators }

PrevTerm(in, t) ==
  LET s == { k \in TermPos(in) : k < t }
  IN  IF s = {} THEN 0 ELSE CHOOSE k \in s : \A m \in s : m <= k

\* the bytes after the last terminator
CurrentRun(in) == SubSeq(in, PrevTerm(in, Len(in) + 1) + 1, Len(in))

\* the terminators that end a non-empty line, and these lines in order
LineEnds(in) == { t \in TermPos(in) : PrevTerm(in, t) < t - 1 }

TerminatedLines(in) ==
  [k \in 1 .. Cardinality(LineEnds(in)) |->
     LET t == CHOOSE u \in LineEnds(in) :
                Cardinality({ v \in LineEnds(in) : v <= u }) = k
     IN  SubSeq(in, PrevTerm(in, t) + 1, t - 1)]

\* what is left of a run of bytes when every LINE_BUFFER_SIZE-th byte
\* empties the buffer: its last Len mod LINE_BUFFER_SIZE bytes
Remainder(run) ==
  SubSeq(run, LINE_BUFFER_SIZE * (Len(run) \div LINE_BUFFER_SIZE) + 1, Len(run))

\* the host has sent a run of more than 127 bytes without a terminator
Overflowed ==
  \E a \in 1 .. Len(host_in) :
    /\ a + LINE_BUFFER_SIZE - 1 <= Len(host_in)
    /\ \A k \in a .. (a + LINE_BUFFER_SIZE - 1) : host_in[k] \notin Terminators

\* C21: the 128th byte of an unterminated run empties the line buffer and
\* the reader goes on from there (the buffer is what remains of the current
\* run); a line of at most 127 bytes that the host has just terminated is
\* the command dispatched last, byte for byte, and an O line is answered
\* with a carriage return and opens the channel; nothing else is written.
C21_OverflowResetsThenParses ==
  LET sp == [lines |-> TerminatedLines(host_in), cur |-> CurrentRun(host_in)] IN
  /\ buffer = Remainder(sp.cur)
  /\ pos = Len(buffer)
  /\ (Len(sp.cur) = LINE_BUFFER_SIZE) => pos = 0
  /\ ( /\ host_in # << >>
       /\ host_in[Len(host_in)] \in Terminators
       /\ sp.lines # << >>
       /\ Len(host_in) >= 2
       /\ host_in[Len(host_in) - 1] \notin Terminators
       /\ Len(sp.lines[Len(sp.lines)]) < LINE_BUFFER_SIZE )
     => /\ cmd_log # << >>
        /\ cmd_log[Len(cmd_log)].data = sp.lines[Len(sp.lines)]
        /\ cmd_log[Len(cmd_log)].after = slcan_state
        /\ (cmd_log[Len(cmd_log)].data = << "O" >>)
             => /\ slcan_state.is_open
                /\ cmd_log[Len(cmd_log)].out = << << CR >> >>
  /\ host_out = Responses(cmd_log)

C21_Witness ==
  /\ Overflowed
  /\ Len(host_in) = LINE_BUFFER_SIZE + 3
  /\ SubSeq(host_in, LINE_BUFFER_SIZE + 1, Len(host_in)) = << CR, "O", CR >>
  /\ cmd_log = << [data |-> << "O" >>, before |-> slcan_init,
                   after |-> slcan_state, out |-> << << CR >> >>] >>
  /\ slcan_state.is_open

\* C28 as claimed: every command dispatched is a complete line of the
\* host, from one terminator (or the start) to the next.
C28_OnlyCompleteLinesDispatched ==
  \A k \in 1 .. Len(cmd_log) :
    \E j \in 1 .. Len(TerminatedLines(host_in)) :
      cmd_log[k].data = TerminatedLines(host_in)[j]

\* the commands dispatched for a sequence of terminated lines
RECURSIVE Remainders(_)
Remainders(lines) ==
  IF lines = << >> THEN << >>
  ELSE (IF Remainder(Head(lines)) = << >> THEN << >>
        ELSE << Remainder(Head(lines)) >>)
       \o Remainders(Tail(lines))

\* C28 as amended: the overflow reset discards the 128 bytes read so far
\* and nothing more; the bytes of the same line that follow are buffered
\* anew, so at its terminator the last (length mod 128) bytes of an
\* over-long line are dispatched as a command, if there are any.  The
\* commands dispatched are, in order, these remainders of the host's lines
\* (a line of at most 127 bytes is its own remainder).
C28_RemainderOfLongLineDispatched ==
  LET exp == Remainders(TerminatedLines(host_in)) IN
  /\ Len(cmd_log) = Len(exp)
  /\ \A k \in 1 .. Len(exp) : cmd_log[k].data = exp[k]

C28_Witness ==
  /\ Overflowed
  /\ Len(host_in) = LINE_BUFFER_SIZE + 3
  /\ SubSeq(host_in, LINE_BUFFER_SIZE, Len(host_in)) = << "A", "O", "A", CR >>
  /\ Len(cmd_log) = 1
  /\ cmd_log[1].data = << "O", "A" >>
  /\ slcan_state.is_open

\* C29: the index pos stays within 0 .. 127, the buffer holds pos bytes
\* (the store of a byte happens at an index below 127 and the terminating
\* NUL at index pos), and every dispatched command has 1 .. 127 bytes.
C29_PosWithinBuffer ==
  /\ pos \in 0 .. (LINE_BUFFER_SIZE - 1)
  /\ Len(buffer) = pos
  /\ \A k \in 1 .. Len(cmd_log) :
       Len(cmd_log[k].data) \in 1 .. (LINE_BUFFER_SIZE - 1)

C29_Witness ==
  /\ Len(cmd_log) = 1
  /\ Len(cmd_log[1].data) = LINE_BUFFER_SIZE - 1
  /\ pos = 0

\* ------------------------------------------------------------------------
\* Cancellation and sharing between the tasks: C22, C23, C27
\* ------------------------------------------------------------------------
\* C22: whenever the run flag is clear, the forwarder task and the
\* command-reader task both stop, whatever the bus and the host do; until
\* the flag is cleared neither of them stops.
C22_ClearedFlagStopsBothTasks ==
  /\ (~g_bridge_running) ~> (fwd_pc = "stopped" /\ usb_pc = "stopped")
  /\ [](g_bridge_running => (fwd_pc # "stopped" /\ usb_pc # "stopped"))

C22_Witness ==
  /\ ~g_bridge_running
  /\ fwd_pc = "stopped"
  /\ usb_pc = "stopped"
  /\ rx_queue # << >>
  /\ host_in = << "O" >>

\* the channel was closed by the last O or C command (its acknowledgment
\* is part of the dispatch, so it has been written)
ClosedByCommand ==
  \E k \in 1 .. Len(cmd_log) :
    /\ cmd_log[k].data[1] = "C"
    /\ \A j \in (k + 1) .. Len(cmd_log) : cmd_log[j].data[1] # "O"

\* C27: no frame line is written while the channel is closed by a C
\* command, i.e. between the acknowledgment of a C and the next O.
C27_NoFrameLineAfterClose ==
  [][Len(sent_log') > Len(sent_log) => ~ClosedByCommand]_vars

C27_RaceWitness ==
  /\ fwd_pc = "format"
  /\ ClosedByCommand
  /\ ~slcan_state.is_open

\* what can_rx_task and slcan_send_frame read: the run flag, the queue,
\* the dequeued entry, the channel state (is_open, timestamp_enabled) and
\* the memory frame->buffer points to
ForwarderReads ==
  << g_bridge_running, rx_queue, task_qf, slcan_state, isr_buf >>

\* what the two tasks read, the queue apart
TasksReadBesidesQueue ==
  << g_bridge_running, task_qf, slcan_state, isr_buf, buffer, pos >>

\* what usb_rx_task and slcan_process_command read
ReaderReads == << g_bridge_running, buffer, pos, slcan_state >>

\* C23: a step of the command reader changes nothing the forwarder reads,
\* a step of the forwarder changes nothing the reader reads, and a run of
\* the receive interrupt changes nothing the tasks read except the queue.
C23_NothingSharedButQueue ==
  /\ [][host_in' # host_in => UNCHANGED ForwarderReads]_vars
  /\ [][fwd_pc' # fwd_pc => UNCHANGED ReaderReads]_vars
  /\ [][rx_count' # rx_count => UNCHANGED TasksReadBesidesQueue]_vars

RelayEnabled == \E n \in nodes : n.owner = "relay" /\ n.enabled

\* C31: the relay session is enabled only while the hand-off queue exists
\* and can_rx_callback is registered with it, and the step that enables it
\* finds both in place; a task is created only with the run flag set, so
\* once a task exists the flag is set and no task has stopped; every frame
\* the interrupt has captured was captured after the queue was created.
C31_StartupOrder ==
  /\ []( /\ \A n \in nodes :
              (n.owner = "relay" /\ n.enabled)
                => /\ n.cb = "can_rx_callback"
                   /\ queue_alive
                   /\ g_rx_queue = "rx_queue"
         /\ (fwd_pc # "not_created" \/ usb_pc # "not_created")
              => g_bridge_running
         /\ fwd_pc # "stopped"
         /\ usb_pc # "stopped"
         /\ captured # << >> => g_rx_queue = "rx_queue" )
  /\ [][(~RelayEnabled /\ RelayEnabled')
          => /\ queue_alive
             /\ \E n \in nodes : n.owner = "relay" /\ n.cb = "can_rx_callback"]_vars
  /\ [][((fwd_pc = "not_created" /\ fwd_pc' # "not_created")
           \/ (usb_pc = "not_created" /\ usb_pc' # "not_created"))
          => g_bridge_running]_vars

C31_Witness ==
  /\ pc = "main_loop"
  /\ RelayEnabled
  /\ g_bridge_running
  /\ captured # << >>
  /\ deq_hist # << >>
  /\ usb_pc = "loop"
  /\ host_in # << >>

=============================================================================
